---- MODULE Spec2Model ----
(***************************************************************************)
(* State-machine model of the AssemblyScript port of the NEAR core         *)
(* contracts: the staking pool (src/contracts/staking-pool/main.ts), the   *)
(* multisig controller (src/contracts/multisig/main.ts), the staking pool  *)
(* factory (src/unnamed/part_000) and the voting contract                  *)
(* (src/contracts/voting/main.ts).                                         *)
(*                                                                         *)
(* Every exported entry point is one atomic action: load the persisted     *)
(* contract object, run the method, persist.  A failed assert aborts the   *)
(* call, so nothing is persisted and no promise is scheduled.              *)
(*                                                                         *)
(* u128 is the wrapping 128-bit integer of as-bignum (add, sub and mul     *)
(* wrap, div floors).  The model keeps the wrapping but scales the word    *)
(* down to Width bits, and scales yoctoNEAR amounts with it.               *)
(*                                                                         *)
(* Map and Set lookups compare keys by value, and a missing key reads as   *)
(* null / zero, as the code's own null checks (`|| new Account()`,         *)
(* `assert((request_with_signer), ...)`) assume.                           *)
(***************************************************************************)
EXTENDS Integers, Sequences, FiniteSets, TLC

VARIABLES
    \* ---- staking pool ----
    pool,               \* the persisted StakingContract object (storage key "STATE")
    epoch_height,       \* host: context.epochHeight
    account_balance,    \* host: unlocked balance of the pool account
    account_locked_balance, \* host: locked (staked) balance of the pool account
    pool_call,          \* the last staking call: entry point, caller, argument, outcome
    pool_promises,      \* the promises the last staking call scheduled
    pool_calls,         \* number of staking calls committed and epoch changes so far
    unstaked_at,        \* history: per account, the epoch of its last successful
                        \* unstake / unstake_all (NoUnstake when there was none)
    \* ---- multisig ----
    ms,                 \* the persisted MultiSigContract object (storage key "ms")
    ms_call,            \* the last multisig call: entry point, inputs, outcome
    ms_calls,           \* number of multisig calls committed so far
    \* ---- staking pool factory ----
    factory,            \* the persisted StakingPoolFactory object
    factory_call,       \* the last factory call: method, inputs, outcome, batch returned
    factory_pending,    \* the on_staking_pool_create callbacks scheduled and not yet run
    factory_created,    \* host: the pool accounts whose creation batch succeeded
    \* ---- voting ----
    voting,             \* the persisted VotingContract object
    voting_call,        \* the last voting call: entry point, caller, argument, outcome
    voting_epoch,       \* host: env.epoch_height of the voting contract's calls
    validator_stake     \* host: env.validator_stake per validator account

vars == <<pool, epoch_height, account_balance, account_locked_balance,
          pool_call, pool_promises, pool_calls, unstaked_at, ms, ms_call, ms_calls,
          factory, factory_call, factory_pending, factory_created,
          voting, voting_call, voting_epoch, validator_stake>>

pool_vars == <<pool, epoch_height, account_balance, account_locked_balance,
               pool_call, pool_promises, pool_calls, unstaked_at>>

ms_vars == <<ms, ms_call, ms_calls>>

factory_vars == <<factory, factory_call, factory_pending, factory_created>>

voting_vars == <<voting, voting_call, voting_epoch, validator_stake>>

-----------------------------------------------------------------------------
(* Bounds of the model *)

\* bits of the scaled-down u128 word
Width == 4

\* largest amount a caller passes to stake / withdraw, and largest deposit
MaxAmount == 2

\* largest reward the host adds to the locked balance at an epoch change
MaxReward == 2

\* last epoch the host reaches
MaxEpoch == 2

\* committed staking calls and epoch changes in one behaviour (failed calls are free)
MaxPoolCalls == 3

-----------------------------------------------------------------------------
(* u128 arithmetic (as-bignum): wrapping add, sub, mul; flooring div *)

U128_MODULUS == 2 ^ Width

U128 == 0 .. (U128_MODULUS - 1)

u128_add(a, b) == (a + b) % U128_MODULUS

u128_sub(a, b) == (a - b) % U128_MODULUS

u128_mul(a, b) == (a * b) % U128_MODULUS

u128_div(a, b) == a \div b

-----------------------------------------------------------------------------
(* Staking pool: constants and types *)

\* STAKE_SHARE_PRICE_GUARANTEE_FUND, 10^12 yoctoNEAR in the code, in scaled units
STAKE_SHARE_PRICE_GUARANTEE_FUND == 2

NUM_EPOCHS_TO_UNLOCK == 4

OWNER == "owner"

POOL_ACCOUNT == "pool"

AccountIds == {OWNER, "alice"}

\* new Account(): the zero-valued account
NewAccount == [unstaked |-> 0, stake_shares |-> 0, unstaked_available_epoch_height |-> 0]

\* the reward fee fractions the pool is created with
RewardFeeFractions == { [numerator |-> 0, denominator |-> 1],
                        [numerator |-> 1, denominator |-> 2],
                        [numerator |-> 1, denominator |-> 1] }

\* the arguments of a call other than amounts, as the call log keeps them: a
\* number, a flag, a key or account id, and a fraction
Args(n, flag, id, fraction) == [n |-> n, flag |-> flag, id |-> id, fraction |-> fraction]

NoArgs == Args(0, FALSE, "", [numerator |-> 0, denominator |-> 1])

\* results of a method: the contract object, the failed assertion ("" if none),
\* the promises scheduled and the return value
Ok(c, out, ret) == [c |-> c, err |-> "", out |-> out, ret |-> ret]

Fail(c, msg) == [c |-> c, err |-> msg, out |-> <<>>, ret |-> 0]

Val(v) == [err |-> "", val |-> v]

ValFail(msg) == [err |-> msg, val |-> 0]

\* the execution context of one call
Context(predecessor, attached) ==
    [ contractName |-> POOL_ACCOUNT,
      predecessor |-> predecessor,
      attachedDeposit |-> attached,
      epochHeight |-> epoch_height,
      \* the attached deposit is already part of the account balance
      accountBalance |-> u128_add(account_balance, attached),
      accountLockedBalance |-> account_locked_balance ]

-----------------------------------------------------------------------------
(* Staking pool: share / amount conversions, as the code computes them *)

num_shares_from_staked_amount_rounded_down(c, amount) ==
    IF ~(c.total_staked_balance > 0)
    THEN ValFail("The total staked balance can't be 0")
    ELSE Val(u128_mul(amount, u128_div(c.total_stake_shares, c.total_staked_balance)))

num_shares_from_staked_amount_rounded_up(c, amount) ==
    IF ~(c.total_staked_balance > 0)
    THEN ValFail("The total staked balance can't be 0")
    ELSE Val(u128_add(u128_mul(c.total_stake_shares, amount),
                      u128_div(u128_sub(c.total_staked_balance, 1),
                               c.total_staked_balance)))

staked_amount_from_num_shares_rounded_down(c, num_shares) ==
    IF ~(c.total_stake_shares > 0)
    THEN ValFail("The total number of stake shares can't be 0")
    ELSE Val(u128_mul(num_shares, u128_div(c.total_staked_balance, c.total_stake_shares)))

staked_amount_from_num_shares_rounded_up(c, num_shares) ==
    IF ~(c.total_stake_shares > 0)
    THEN ValFail("The total number of stake shares can't be 0")
    ELSE Val(u128_add(u128_mul(c.total_staked_balance, num_shares),
                      u128_div(u128_sub(c.total_stake_shares, 1),
                               c.total_stake_shares)))

\* RewardFeeFraction.assert_valid
assert_valid(f) ==
    IF ~(f.denominator # 0) THEN "Denominator must be a positive number"
    ELSE IF ~(f.numerator <= f.denominator)
    THEN "The reward must be less than or equal to 1"
    ELSE ""

\* RewardFeeFraction.multiply
multiply(f, value) ==
    u128_mul(value, u128_div(f.numerator, f.denominator))

-----------------------------------------------------------------------------
(* Staking pool: internal methods *)

internal_get_account(c, account_id) ==
    IF account_id \in DOMAIN c.accounts THEN c.accounts[account_id] ELSE NewAccount

\* internal_save_account that stores the record whatever its balances
internal_save_account_kept(c, account_id, account) ==
    [c EXCEPT !.accounts =
        [a \in (DOMAIN c.accounts) \cup {account_id} |->
            IF a = account_id THEN account ELSE c.accounts[a]]]

internal_save_account(c, account_id, account) ==
    IF account.unstaked > 0 \/ account.stake_shares > 0
    THEN [c EXCEPT !.accounts =
            [a \in (DOMAIN c.accounts) \cup {account_id} |->
                IF a = account_id THEN account ELSE c.accounts[a]]]
    ELSE [c EXCEPT !.accounts =
            [a \in (DOMAIN c.accounts) \ {account_id} |-> c.accounts[a]]]

\* a deposit that also credits the amount to the owner's record
internal_deposit_shared(c, ctx) ==
    LET account_id == ctx.predecessor
        amount == ctx.attachedDeposit
        account == internal_get_account(c, account_id)
        owner == internal_get_account(c, c.owner_id)
        c1 == internal_save_account(c, account_id,
                  [account EXCEPT !.unstaked = u128_add(account.unstaked, amount)])
        c2 == internal_save_account(c1, c.owner_id,
                  [owner EXCEPT !.unstaked = u128_add(owner.unstaked, amount)])
    IN Ok([c2 EXCEPT !.last_total_balance = u128_add(c2.last_total_balance, amount)],
          <<>>, amount)

get_number_of_accounts(c) == Cardinality(DOMAIN c.accounts)

StakePromise(amount, callback) ==
    [kind |-> "stake", receiver |-> POOL_ACCOUNT, amount |-> amount, callback |-> callback]

TransferPromise(receiver, amount) ==
    [kind |-> "transfer", receiver |-> receiver, amount |-> amount, callback |-> FALSE]

\* a function call without deposit scheduled on account receiver
FunctionCallPromise(receiver, method_name, args) ==
    [kind |-> "function_call", receiver |-> receiver, amount |-> 0, callback |-> FALSE,
     method_name |-> method_name, args |-> args]

\* internal_restake without its check of paused
internal_restake_unpaused(c) == << StakePromise(c.total_staked_balance, TRUE) >>

\* the promises internal_restake schedules
internal_restake(c) ==
    IF c.paused THEN <<>> ELSE << StakePromise(c.total_staked_balance, TRUE) >>

\* internal_ping without its assertion on the total balance
internal_ping_unasserted(c, ctx) ==
    IF c.last_epoch_height = ctx.epochHeight
    THEN Ok(c, <<>>, FALSE)
    ELSE
      LET c1 == [c EXCEPT !.last_epoch_height = ctx.epochHeight]
          total_balance == u128_add(ctx.accountLockedBalance,
                                    u128_sub(ctx.accountBalance, ctx.attachedDeposit))
      IN
        LET total_reward == u128_sub(total_balance, c1.last_total_balance) IN
        IF ~(total_reward > 0)
        THEN Ok([c1 EXCEPT !.last_total_balance = total_balance], <<>>, TRUE)
        ELSE
          LET owners_fee == multiply(c1.reward_fee_fraction, total_reward)
              remaining_reward == u128_sub(total_reward, owners_fee)
              c2 == [c1 EXCEPT !.total_staked_balance =
                                   u128_add(remaining_reward, c1.total_staked_balance)]
              ns == num_shares_from_staked_amount_rounded_down(c2, owners_fee)
          IN
          IF ns.err # "" THEN Fail(c, ns.err)
          ELSE
            LET num_shares == ns.val
                account == internal_get_account(c2, c2.owner_id)
                account1 == [account EXCEPT !.stake_shares =
                                               u128_add(num_shares, account.stake_shares)]
                c3 == IF num_shares > 0
                      THEN [internal_save_account(c2, c2.owner_id, account1)
                              EXCEPT !.total_stake_shares =
                                         u128_add(num_shares, c2.total_stake_shares)]
                      ELSE c2
                c4 == [c3 EXCEPT !.total_staked_balance =
                                     u128_add(c3.total_staked_balance, owners_fee)]
            IN Ok([c4 EXCEPT !.last_total_balance = total_balance], <<>>, TRUE)

internal_ping(c, ctx) ==
    IF c.last_epoch_height = ctx.epochHeight
    THEN Ok(c, <<>>, FALSE)
    ELSE
      LET c1 == [c EXCEPT !.last_epoch_height = ctx.epochHeight]
          total_balance == u128_add(ctx.accountLockedBalance,
                                    u128_sub(ctx.accountBalance, ctx.attachedDeposit))
      IN
      IF ~(total_balance >= c1.last_total_balance)
      THEN Fail(c, "The new total balance should not be less than the old total balance")
      ELSE
        LET total_reward == u128_sub(total_balance, c1.last_total_balance) IN
        IF ~(total_reward > 0)
        THEN Ok([c1 EXCEPT !.last_total_balance = total_balance], <<>>, TRUE)
        ELSE
          LET owners_fee == multiply(c1.reward_fee_fraction, total_reward)
              remaining_reward == u128_sub(total_reward, owners_fee)
              c2 == [c1 EXCEPT !.total_staked_balance =
                                   u128_add(remaining_reward, c1.total_staked_balance)]
              ns == num_shares_from_staked_amount_rounded_down(c2, owners_fee)
          IN
          IF ns.err # "" THEN Fail(c, ns.err)
          ELSE
            LET num_shares == ns.val
                account == internal_get_account(c2, c2.owner_id)
                account1 == [account EXCEPT !.stake_shares =
                                               u128_add(num_shares, account.stake_shares)]
                c3 == IF num_shares > 0
                      THEN [internal_save_account(c2, c2.owner_id, account1)
                              EXCEPT !.total_stake_shares =
                                         u128_add(num_shares, c2.total_stake_shares)]
                      ELSE c2
                c4 == [c3 EXCEPT !.total_staked_balance =
                                     u128_add(c3.total_staked_balance, owners_fee)]
            IN Ok([c4 EXCEPT !.last_total_balance = total_balance], <<>>, TRUE)

internal_deposit(c, ctx) ==
    LET account_id == ctx.predecessor
        account == internal_get_account(c, account_id)
        amount == ctx.attachedDeposit
        account1 == [account EXCEPT !.unstaked = u128_add(amount, account.unstaked)]
        c1 == internal_save_account(c, account_id, account1)
    IN Ok([c1 EXCEPT !.last_total_balance = u128_add(c1.last_total_balance, amount)],
          <<>>, amount)

internal_withdraw(c, ctx, amount) ==
    LET account_id == ctx.predecessor
        account == internal_get_account(c, account_id)
    IN
    IF ~(amount > 0) THEN Fail(c, "Withdrawal amount should be positive")
    ELSE IF ~(account.unstaked >= amount)
    THEN Fail(c, "Not enough unstaked balance to withdraw")
    ELSE IF ~(account.unstaked_available_epoch_height <= ctx.epochHeight)
    THEN Fail(c, "The unstaked balance is not yet available due to unstaking delay")
    ELSE
      LET account1 == [account EXCEPT !.unstaked = u128_sub(account.unstaked, amount)]
          c1 == internal_save_account(c, account_id, account1)
      IN Ok([c1 EXCEPT !.last_total_balance = u128_sub(c1.last_total_balance, amount)],
            << TransferPromise(account_id, amount) >>, 0)

internal_stake(c, ctx, amount) ==
    LET account_id == ctx.predecessor
        account == internal_get_account(c, account_id)
        ns == num_shares_from_staked_amount_rounded_down(c, amount)
    IN
    IF ~(amount > 0) THEN Fail(c, "Staking amount should be positive")
    ELSE IF ns.err # "" THEN Fail(c, ns.err)
    ELSE IF ~(ns.val > 0)
    THEN Fail(c, "The calculated number of stake shares received for staking should be positive")
    ELSE
      LET num_shares == ns.val
          ca == staked_amount_from_num_shares_rounded_down(c, num_shares)
      IN
      IF ca.err # "" THEN Fail(c, ca.err)
      ELSE IF ~(ca.val > 0)
      THEN Fail(c, "Invariant violation. Calculated staked amount must be positive")
      ELSE IF ~(account.unstaked >= ca.val)
      THEN Fail(c, "Not enough unstaked balance to stake")
      ELSE
        LET charge_amount == ca.val
            account1 == [account EXCEPT
                           !.unstaked = u128_sub(charge_amount, account.unstaked),
                           !.stake_shares = u128_add(num_shares, account.stake_shares)]
            c1 == internal_save_account(c, account_id, account1)
            sa == staked_amount_from_num_shares_rounded_up(c1, num_shares)
        IN
        IF sa.err # "" THEN Fail(c, sa.err)
        ELSE
          LET stake_amount == sa.val IN
          Ok([c1 EXCEPT
                !.total_staked_balance = u128_add(stake_amount, c1.total_staked_balance),
                !.total_stake_shares = u128_add(num_shares, c1.total_stake_shares)],
             <<>>, 0)

inner_unstake(c, ctx, amount) ==
    LET account_id == ctx.predecessor
        account == internal_get_account(c, account_id)
    IN
    IF ~(amount > 0) THEN Fail(c, "Unstaking amount should be positive")
    ELSE IF ~(c.total_staked_balance > 0)
    THEN Fail(c, "The contract doesn't have staked balance")
    ELSE
      LET ns == num_shares_from_staked_amount_rounded_up(c, amount) IN
      IF ns.err # "" THEN Fail(c, ns.err)
      ELSE IF ~(ns.val > 0)
      THEN Fail(c, "Invariant violation. The calculated number of stake shares for unstaking should be positive")
      ELSE IF ~(account.stake_shares >= ns.val)
      THEN Fail(c, "Not enough staked balance to unstake")
      ELSE
        LET num_shares == ns.val
            ra == staked_amount_from_num_shares_rounded_up(c, num_shares)
        IN
        IF ra.err # "" THEN Fail(c, ra.err)
        ELSE IF ~(ra.val > 0)
        THEN Fail(c, "Invariant violation. Calculated staked amount must be positive")
        ELSE
          LET receive_amount == ra.val
              account1 == [account EXCEPT
                             !.stake_shares = u128_sub(num_shares, account.stake_shares),
                             !.unstaked = u128_add(receive_amount, account.unstaked),
                             !.unstaked_available_epoch_height =
                                 ctx.epochHeight + NUM_EPOCHS_TO_UNLOCK]
              c1 == internal_save_account(c, account_id, account1)
              ua == staked_amount_from_num_shares_rounded_down(c1, num_shares)
          IN
          IF ua.err # "" THEN Fail(c, ua.err)
          ELSE
            LET unstake_amount == ua.val IN
            Ok([c1 EXCEPT
                  !.total_staked_balance = u128_add(c1.total_staked_balance, unstake_amount),
                  !.total_stake_shares = u128_add(c1.total_stake_shares, num_shares)],
               <<>>, 0)

-----------------------------------------------------------------------------
(* Staking pool: public methods.  Each returns the contract object to      *)
(* persist and the promises scheduled, or the assertion that failed.       *)

\* ping that restakes whatever internal_ping returns
ping_restaking(c, ctx) ==
    LET p == internal_ping(c, ctx) IN
    IF p.err # "" THEN p
    ELSE Ok(p.c, internal_restake(p.c), 0)

ping(c, ctx) ==
    LET p == internal_ping(c, ctx) IN
    IF p.err # "" THEN p
    ELSE Ok(p.c, IF p.ret THEN internal_restake(p.c) ELSE <<>>, 0)

deposit(c, ctx) ==
    LET p == internal_ping(c, ctx) IN
    IF p.err # "" THEN p
    ELSE LET d == internal_deposit(p.c, ctx) IN
         Ok(d.c, IF p.ret THEN internal_restake(d.c) ELSE <<>>, 0)

deposit_and_stake(c, ctx) ==
    LET p == internal_ping(c, ctx) IN
    IF p.err # "" THEN p
    ELSE LET d == internal_deposit(p.c, ctx)
             s == internal_stake(d.c, ctx, d.ret)
         IN IF s.err # "" THEN Fail(c, s.err)
            ELSE Ok(s.c, internal_restake(s.c), 0)

withdraw(c, ctx, amount) ==
    LET p == internal_ping(c, ctx) IN
    IF p.err # "" THEN p
    ELSE LET w == internal_withdraw(p.c, ctx, amount) IN
         IF w.err # "" THEN Fail(c, w.err)
         ELSE Ok(w.c, w.out \o (IF p.ret THEN internal_restake(w.c) ELSE <<>>), 0)

withdraw_all(c, ctx) ==
    LET p == internal_ping(c, ctx) IN
    IF p.err # "" THEN p
    ELSE LET account == internal_get_account(p.c, ctx.predecessor)
             w == internal_withdraw(p.c, ctx, account.unstaked)
         IN IF w.err # "" THEN Fail(c, w.err)
            ELSE Ok(w.c, w.out \o (IF p.ret THEN internal_restake(w.c) ELSE <<>>), 0)

\* stake that restakes only when its ping asks for it, as deposit does
stake_if_pinged(c, ctx, amount) ==
    LET p == internal_ping(c, ctx) IN
    IF p.err # "" THEN p
    ELSE LET s == internal_stake(p.c, ctx, amount) IN
         IF s.err # "" THEN Fail(c, s.err)
         ELSE Ok(s.c, IF p.ret THEN internal_restake(s.c) ELSE <<>>, 0)

stake(c, ctx, amount) ==
    LET p == internal_ping(c, ctx) IN
    IF p.err # "" THEN p
    ELSE LET s == internal_stake(p.c, ctx, amount) IN
         IF s.err # "" THEN Fail(c, s.err)
         ELSE Ok(s.c, internal_restake(s.c), 0)

stake_all(c, ctx) ==
    LET p == internal_ping(c, ctx) IN
    IF p.err # "" THEN p
    ELSE LET account == internal_get_account(p.c, ctx.predecessor)
             s == internal_stake(p.c, ctx, account.unstaked)
         IN IF s.err # "" THEN Fail(c, s.err)
            ELSE Ok(s.c, internal_restake(s.c), 0)

unstake(c, ctx, amount) ==
    LET p == internal_ping(c, ctx) IN
    IF p.err # "" THEN p
    ELSE LET u == inner_unstake(p.c, ctx, amount) IN
         IF u.err # "" THEN Fail(c, u.err)
         ELSE Ok(u.c, internal_restake(u.c), 0)

unstake_all(c, ctx) ==
    LET p == internal_ping(c, ctx) IN
    IF p.err # "" THEN p
    ELSE LET account == internal_get_account(p.c, ctx.predecessor)
             am == staked_amount_from_num_shares_rounded_down(p.c, account.stake_shares)
         IN IF am.err # "" THEN Fail(c, am.err)
            ELSE LET u == inner_unstake(p.c, ctx, am.val) IN
                 IF u.err # "" THEN Fail(c, u.err)
                 ELSE Ok(u.c, internal_restake(u.c), 0)

-----------------------------------------------------------------------------
(* Staking pool: the callback and the owner's methods *)

\* env.isValidAccountID on the account ids callers pass
ValidAccountIds == {OWNER, POOL_ACCOUNT, "alice", "voting", "bob",
                    "a.factory", "b.factory", "a.b.factory"}

isValidAccountID(account_id) == account_id \in ValidAccountIds

\* assert_owner without its assertion
assert_owner_unasserted(c, ctx) == ""

assert_owner(c, ctx) ==
    IF ~(ctx.predecessor = c.owner_id) THEN "Can only be called by owner" ELSE ""

\* on_stake_action that restakes with the callback chained again
on_stake_action_chained(c, ctx, results_count, succeeded) ==
    IF ~(ctx.contractName = ctx.predecessor)
    THEN Fail(c, "Can be called only as a callback")
    ELSE IF ~(results_count = 1)
    THEN Fail(c, "Contract expected a result on the callback")
    ELSE IF ~succeeded /\ ctx.accountLockedBalance > 0
    THEN Ok(c, << StakePromise(0, TRUE) >>, 0)
    ELSE Ok(c, <<>>, 0)

\* results_count is env.promise_results_count(); succeeded tells whether
\* promise result 0 is PromiseResult.Successful
on_stake_action(c, ctx, results_count, succeeded) ==
    IF ~(ctx.contractName = ctx.predecessor)
    THEN Fail(c, "Can be called only as a callback")
    ELSE IF ~(results_count = 1)
    THEN Fail(c, "Contract expected a result on the callback")
    ELSE IF ~succeeded /\ ctx.accountLockedBalance > 0
    THEN Ok(c, << StakePromise(0, FALSE) >>, 0)
    ELSE Ok(c, <<>>, 0)

update_staking_key(c, ctx, stake_public_key) ==
    IF assert_owner(c, ctx) # "" THEN Fail(c, assert_owner(c, ctx))
    ELSE LET p == internal_ping(c, ctx) IN
         IF p.err # "" THEN p
         ELSE LET c1 == [p.c EXCEPT !.stake_public_key = stake_public_key]
              IN Ok(c1, internal_restake(c1), 0)

update_reward_fee_fraction(c, ctx, reward_fee_fraction) ==
    IF assert_owner(c, ctx) # "" THEN Fail(c, assert_owner(c, ctx))
    ELSE IF assert_valid(reward_fee_fraction) # ""
    THEN Fail(c, assert_valid(reward_fee_fraction))
    ELSE LET p == internal_ping(c, ctx) IN
         IF p.err # "" THEN p
         ELSE LET c1 == [p.c EXCEPT !.reward_fee_fraction = reward_fee_fraction]
              IN Ok(c1, IF p.ret THEN internal_restake(c1) ELSE <<>>, 0)

\* the exported vote does not persist; the method changes no field
vote(c, ctx, voting_account_id, is_vote) ==
    IF assert_owner(c, ctx) # "" THEN Fail(c, assert_owner(c, ctx))
    ELSE IF ~isValidAccountID(voting_account_id)
    THEN Fail(c, "Invalid voting account ID")
    ELSE Ok(c, << FunctionCallPromise(ctx.contractName, "on_stake_action", <<>>) >>, 0)

pause_staking(c, ctx) ==
    IF assert_owner(c, ctx) # "" THEN Fail(c, assert_owner(c, ctx))
    ELSE IF ~(~c.paused) THEN Fail(c, "The staking is already paused")
    ELSE LET p == internal_ping(c, ctx) IN
         IF p.err # "" THEN p
         ELSE Ok([p.c EXCEPT !.paused = TRUE], << StakePromise(0, FALSE) >>, 0)

resume_staking(c, ctx) ==
    IF assert_owner(c, ctx) # "" THEN Fail(c, assert_owner(c, ctx))
    ELSE IF ~c.paused THEN Fail(c, "The staking is not paused")
    ELSE LET p == internal_ping(c, ctx) IN
         IF p.err # "" THEN p
         ELSE LET c1 == [p.c EXCEPT !.paused = FALSE]
              IN Ok(c1, internal_restake(c1), 0)

-----------------------------------------------------------------------------
(* Staking pool: initialisation (exported `new` -> StakingContract.init)   *)

\* account balances the pool account holds when `new` runs
InitBalances == { STAKE_SHARE_PRICE_GUARANTEE_FUND,
                  STAKE_SHARE_PRICE_GUARANTEE_FUND + 4 }

init(owner_id, stake_public_key, reward_fee_fraction, balance, epoch) ==
    LET total_staked_balance == u128_sub(balance, STAKE_SHARE_PRICE_GUARANTEE_FUND) IN
    [ owner_id |-> owner_id,
      last_epoch_height |-> epoch,
      last_total_balance |-> balance,
      total_stake_shares |-> total_staked_balance,
      total_staked_balance |-> total_staked_balance,
      stake_public_key |-> stake_public_key,
      reward_fee_fraction |-> reward_fee_fraction,
      accounts |-> [a \in {} |-> NewAccount],
      paused |-> FALSE ]

NoUnstake == -1

PoolInitOf(balances, locked_balances, fractions) ==
    /\ epoch_height = 0
    /\ account_balance \in balances
    /\ account_locked_balance \in locked_balances
    /\ \E f \in fractions :
          /\ assert_valid(f) = ""
          /\ pool = init(OWNER, "ed25519:A", f, account_balance, epoch_height)
    /\ pool_call = [op |-> "new", predecessor |-> OWNER, amount |-> 0, args |-> NoArgs,
                    err |-> ""]
    /\ pool_promises = internal_restake(pool)
    /\ pool_calls = 0
    /\ unstaked_at = [a \in AccountIds |-> NoUnstake]

PoolInitWith(balances) == PoolInitOf(balances, {1}, RewardFeeFractions)

PoolInit == PoolInitWith(InitBalances)

-----------------------------------------------------------------------------
(* Staking pool: the exported entry points as actions *)

\* the host runs the scheduled transfers: the unlocked balance pays them if it can
AfterTransfers(balance, out) ==
    LET paid == IF out # <<>> /\ out[1].kind = "transfer" /\ out[1].amount <= balance
                THEN out[1].amount ELSE 0
    IN balance - paid

\* load, run the method (result r), persist; a failed assertion commits nothing.
\* The call log keeps the arguments other than amounts in args.
\* a failed call that keeps what its internal ping wrote
PoolCallArgs_pinged(max_calls, op, predecessor, attached, amount, args, r) ==
    /\ r.err = "" => pool_calls < max_calls
    /\ account_balance + account_locked_balance + attached < U128_MODULUS
    /\ pool_calls' = IF r.err = "" THEN pool_calls + 1 ELSE pool_calls
    /\ pool_call' = [op |-> op, predecessor |-> predecessor, amount |-> amount,
                     args |-> args, err |-> r.err]
    /\ UNCHANGED <<epoch_height, account_locked_balance>>
    /\ UNCHANGED <<ms_vars, factory_vars, voting_vars>>
    /\ IF r.err = ""
       THEN /\ pool' = r.c
            /\ pool_promises' = r.out
            /\ account_balance' = AfterTransfers(account_balance + attached, r.out)
            /\ unstaked_at' = IF op \in {"unstake", "unstake_all"}
                              THEN [unstaked_at EXCEPT ![predecessor] = epoch_height]
                              ELSE unstaked_at
       ELSE /\ pool_promises' = <<>>
            /\ pool' = internal_ping(pool, Context(predecessor, attached)).c
            /\ UNCHANGED <<account_balance, unstaked_at>>

PoolCallArgs(max_calls, op, predecessor, attached, amount, args, r) ==
    /\ r.err = "" => pool_calls < max_calls
    /\ account_balance + account_locked_balance + attached < U128_MODULUS
    /\ pool_calls' = IF r.err = "" THEN pool_calls + 1 ELSE pool_calls
    /\ pool_call' = [op |-> op, predecessor |-> predecessor, amount |-> amount,
                     args |-> args, err |-> r.err]
    /\ UNCHANGED <<epoch_height, account_locked_balance>>
    /\ UNCHANGED <<ms_vars, factory_vars, voting_vars>>
    /\ IF r.err = ""
       THEN /\ pool' = r.c
            /\ pool_promises' = r.out
            /\ account_balance' = AfterTransfers(account_balance + attached, r.out)
            /\ unstaked_at' = IF op \in {"unstake", "unstake_all"}
                              THEN [unstaked_at EXCEPT ![predecessor] = epoch_height]
                              ELSE unstaked_at
       ELSE /\ pool_promises' = <<>>
            /\ UNCHANGED <<pool, account_balance, unstaked_at>>

PoolCallWithin(max_calls, op, predecessor, attached, amount, r) ==
    PoolCallArgs(max_calls, op, predecessor, attached, amount, NoArgs, r)

PoolCall(op, predecessor, attached, amount, r) ==
    PoolCallWithin(MaxPoolCalls, op, predecessor, attached, amount, r)

Ping ==
    \E a \in AccountIds :
        PoolCall("ping", a, 0, 0, ping(pool, Context(a, 0)))

Deposit ==
    \E a \in AccountIds, d \in 0 .. MaxAmount :
        PoolCall("deposit", a, d, d, deposit(pool, Context(a, d)))

DepositAndStake ==
    \E a \in AccountIds, d \in 0 .. MaxAmount :
        PoolCall("deposit_and_stake", a, d, d, deposit_and_stake(pool, Context(a, d)))

WithdrawAll ==
    \E a \in AccountIds :
        PoolCall("withdraw_all", a, 0, 0, withdraw_all(pool, Context(a, 0)))

\* the amounts a caller asks for: small ones, and its whole unstaked balance
WithdrawAmounts(a) ==
    (0 .. MaxAmount) \cup { internal_get_account(pool, a).unstaked }

Withdraw ==
    \E a \in AccountIds : \E n \in WithdrawAmounts(a) :
        PoolCall("withdraw", a, 0, n, withdraw(pool, Context(a, 0), n))

StakeAll ==
    \E a \in AccountIds :
        PoolCall("stake_all", a, 0, 0, stake_all(pool, Context(a, 0)))

Stake ==
    \E a \in AccountIds, n \in 0 .. MaxAmount :
        PoolCall("stake", a, 0, n, stake(pool, Context(a, 0), n))

UnstakeAll ==
    \E a \in AccountIds :
        PoolCall("unstake_all", a, 0, 0, unstake_all(pool, Context(a, 0)))

\* the amounts callers pass to unstake: the small amounts, and the u128 values
\* whose product with total_stake_shares wraps around to a small number
UnstakeAmounts ==
    { n \in U128 : \/ n <= MaxAmount
                   \/ u128_mul(pool.total_stake_shares, n) <= MaxAmount }

Unstake ==
    \E a \in AccountIds, n \in UnstakeAmounts :
        PoolCall("unstake", a, 0, n, unstake(pool, Context(a, 0), n))

\* the host moves on by some epochs, paying a validator reward into the locked
\* balance (a negative reward is a slashing of the locked balance)
NewEpochWithin(max_calls, max_epoch, epochs, rewards) ==
    /\ pool_calls < max_calls
    /\ \E n \in epochs :
          /\ epoch_height + n <= max_epoch
          /\ epoch_height' = epoch_height + n
    /\ \E reward \in rewards :
          /\ account_locked_balance + reward >= 0
          /\ account_balance + account_locked_balance + reward < U128_MODULUS
          /\ account_locked_balance' = account_locked_balance + reward
    /\ pool_calls' = pool_calls + 1
    /\ UNCHANGED <<pool, account_balance, pool_call, pool_promises, unstaked_at>>
    /\ UNCHANGED <<ms_vars, factory_vars, voting_vars>>

NewEpoch == NewEpochWithin(MaxPoolCalls, MaxEpoch, {1}, 0 .. MaxReward)

StakingNext ==
    \/ Ping
    \/ Deposit
    \/ DepositAndStake
    \/ WithdrawAll
    \/ Withdraw
    \/ StakeAll
    \/ Stake
    \/ UnstakeAll
    \/ Unstake
    \/ NewEpoch

-----------------------------------------------------------------------------
(* Multisig: bounds, constants and types *)

\* committed multisig calls in one behaviour (failed calls are free)
MaxMsCalls == 3

\* largest request id a caller passes
MaxRequestId == 2

\* largest value a SetNumConfirmations / SetActiveRequestsLimit action carries
MaxConfig == 2

\* REQUEST_COOLDOWN, 900 s: 900_000_000_000 ns in the code, in seconds here
REQUEST_COOLDOWN == 900

MSIG_ACCOUNT == "multisig"

Predecessors == {MSIG_ACCOUNT, "mallory"}

PublicKeys == {"k1", "k2"}

\* block timestamps (seconds) a call may run at
Timestamps == {0, REQUEST_COOLDOWN + 1}

\* the ActionType enum, in declaration order
ActionTypes == << "Transfer", "CreateAccount", "DeployContract", "AddKey",
                  "DeleteKey", "FunctionCall", "SetNumConfirmations",
                  "SetActiveRequestsLimit" >>

TypeIndex(t) == CHOOSE i \in 1 .. Len(ActionTypes) : ActionTypes[i] = t

\* a request action: its type tag, and the payload the contract's own state depends on
Action(type, public_key, n) == [type |-> type, public_key |-> public_key, n |-> n]

Actions ==
    { Action(t, "none", 0) : t \in {"Transfer", "CreateAccount", "DeployContract", "FunctionCall"} }
    \cup { Action("AddKey", "k2", 0) }
    \cup { Action("DeleteKey", k, 0) : k \in PublicKeys }
    \cup { Action(t, "none", n) : t \in {"SetNumConfirmations", "SetActiveRequestsLimit"},
                                  n \in 1 .. MaxConfig }

\* the action lists of the two-action requests
ActionPairs == { << Action("Transfer", "none", 0), Action("CreateAccount", "none", 0) >>,
                 << Action("SetNumConfirmations", "none", 1), Action("Transfer", "none", 0) >>,
                 << Action("Transfer", "none", 0), Action("SetActiveRequestsLimit", "none", 1) >> }

\* the MultiSigRequest arguments callers pass
Requests ==
    { [receiver_id |-> r, actions |-> s] :
        r \in {MSIG_ACCOUNT, "bob"},
        s \in {<<>>} \cup { <<a>> : a \in Actions } \cup ActionPairs }

\* the requests signers propose through add_request and add_request_and_confirm
ProposedRequests ==
    { [receiver_id |-> "bob", actions |-> <<Action("Transfer", "none", 0)>>],
      [receiver_id |-> "bob", actions |-> << Action("Transfer", "none", 0),
                                             Action("CreateAccount", "none", 0) >>],
      [receiver_id |-> MSIG_ACCOUNT, actions |-> <<Action("DeleteKey", "k1", 0)>>],
      [receiver_id |-> MSIG_ACCOUNT,
       actions |-> <<Action("SetNumConfirmations", "none", MaxConfig)>>] }

\* What a field read through a cast to the wrong action class yields when a
\* switch case is entered by fall-through: the cast traps (cast_ok = FALSE), or
\* the read returns whatever lies at the field's offset.
Reinterpretations ==
    { [cast_ok |-> FALSE, public_key |-> "junk", n |-> 0] }
    \cup [ cast_ok : {TRUE}, public_key : PublicKeys \cup {"junk"}, n : {0, MaxConfig} ]

MsContext(predecessor, signer_pk, timestamp) ==
    [ contractName |-> MSIG_ACCOUNT,
      predecessor |-> predecessor,
      senderPublicKey |-> signer_pk,
      blockTimestamp |-> timestamp ]

MapGet(f, k, default) == IF k \in DOMAIN f THEN f[k] ELSE default

MapSet(f, k, v) == [x \in (DOMAIN f) \cup {k} |-> IF x = k THEN v ELSE f[x]]

MapDelete(f, k) == [x \in (DOMAIN f) \ {k} |-> f[x]]

\* results of a multisig method: contract object, failed assertion, promise batch
\* (the kinds of the actions appended), return value, and whether execute_request ran
MsOk(m, batch, ret) ==
    [m |-> m, err |-> "", batch |-> batch, ret |-> ret, executed |-> FALSE]

MsFail(m, msg) ==
    [m |-> m, err |-> msg, batch |-> <<>>, ret |-> 0, executed |-> FALSE]

\* No code constructs the contract's Map fields: the constructor copies them
\* from storage when a state is stored and leaves them alone otherwise.  A
\* build either gives the fields empty collections (m.collections = "empty"),
\* as the methods assume, or leaves them null, and then an access traps.
NullCollection == "abort: access to a collection that was never constructed"

-----------------------------------------------------------------------------
(* Multisig: methods of MultiSigContract *)

assert_valid_request(m, ctx, request_id) ==
    IF ~(ctx.contractName = ctx.predecessor)
    THEN "Predecessor account must be current account"
    ELSE IF m.collections = "null" THEN NullCollection
    ELSE IF ~(request_id \in DOMAIN m.requests)
    THEN "No such request: either wrong number or already confirmed"
    ELSE IF ~(request_id \in DOMAIN m.confirmations)
    THEN "Internal error: confirmations mismatch requests"
    ELSE ""

assert_self_request(ctx, receiver_id) ==
    IF ~(receiver_id = ctx.contractName)
    THEN "This method only works when receiver_id is equal to current_account_id"
    ELSE ""

\* assert_one_action_only without its assertion on the number of actions
assert_one_action_only_unnumbered(ctx, receiver_id, num_actions) ==
    assert_self_request(ctx, receiver_id)

assert_one_action_only(ctx, receiver_id, num_actions) ==
    IF assert_self_request(ctx, receiver_id) # ""
    THEN assert_self_request(ctx, receiver_id)
    ELSE IF ~(num_actions = 1) THEN "This metod should be a separate request"
    ELSE ""

\* add_request without the increment of request_nonce
add_request_same_nonce(m, ctx, request) ==
    IF ~(ctx.contractName = ctx.predecessor)
    THEN MsFail(m, "Predecessor account must match current account")
    ELSE IF m.collections = "null" THEN MsFail(m, NullCollection)
    ELSE
      LET sender_pk == ctx.senderPublicKey
          num_requests == MapGet(m.num_requests_pk, sender_pk, 0) + 1
      IN
      IF ~(num_requests <= m.active_requests_limit)
      THEN MsFail(m, "Account has too many active requests")
      ELSE
        MsOk([m EXCEPT
                !.num_requests_pk = MapSet(m.num_requests_pk, sender_pk, num_requests),
                !.confirmations = MapSet(m.confirmations, m.request_nonce, {})],
             <<>>, m.request_nonce)

add_request(m, ctx, request) ==
    IF ~(ctx.contractName = ctx.predecessor)
    THEN MsFail(m, "Predecessor account must match current account")
    ELSE IF m.collections = "null" THEN MsFail(m, NullCollection)
    ELSE
      LET sender_pk == ctx.senderPublicKey
          num_requests == MapGet(m.num_requests_pk, sender_pk, 0) + 1
      IN
      IF ~(num_requests <= m.active_requests_limit)
      THEN MsFail(m, "Account has too many active requests")
      ELSE
        MsOk([m EXCEPT
                !.num_requests_pk = MapSet(m.num_requests_pk, sender_pk, num_requests),
                !.confirmations = MapSet(m.confirmations, m.request_nonce, {}),
                !.request_nonce = m.request_nonce + 1],
             <<>>, m.request_nonce)

\* remove_request without its assertion that the request record exists
remove_request_unasserted(m, request_id) ==
    IF m.collections = "null" THEN MsFail(m, NullCollection)
    ELSE MsOk([m EXCEPT !.confirmations = MapDelete(m.confirmations, request_id)],
              <<>>, [receiver_id |-> "none", actions |-> <<>>])

remove_request(m, request_id) ==
    LET m1 == [m EXCEPT !.confirmations = MapDelete(m.confirmations, request_id)] IN
    IF m.collections = "null" THEN MsFail(m, NullCollection)
    ELSE IF ~(request_id \in DOMAIN m1.requests)
    THEN MsFail(m, "Failed to remove existing element")
    ELSE
      LET request_with_signer == m1.requests[request_id]
          original_signer_pk == request_with_signer.signer_pk
          num_requests == MapGet(m1.num_requests_pk, original_signer_pk, 0)
          num_requests1 == IF num_requests > 0 THEN num_requests - 1 ELSE num_requests
      IN
      MsOk([m1 EXCEPT
              !.requests = MapDelete(m1.requests, request_id),
              !.num_requests_pk = MapSet(m1.num_requests_pk, original_signer_pk, num_requests1)],
           <<>>, request_with_signer.request)

\* The switch of execute_request has no break: entered at the case of the
\* action's type (index i), control runs through the bodies of the following
\* cases (index j) until the `return` of SetNumConfirmations.  A body j # i
\* reads its fields through a cast to a class the action does not have (g).
RECURSIVE RunCases(_, _, _, _, _, _, _, _)
RunCases(m, batch, ctx, request, action, i, j, g) ==
    LET receiver_id == request.receiver_id
        num_actions == Len(request.actions)
        wrong_cast == (j # i) /\ ~g.cast_ok
        next(m1, batch1) == RunCases(m1, batch1, ctx, request, action, i, j + 1, g)
    IN
    CASE j = 1 -> next(m, Append(batch, "Transfer"))
      [] j = 2 -> next(m, Append(batch, "CreateAccount"))
      [] j = 3 -> IF wrong_cast THEN MsFail(m, "abort: invalid downcast")
                  ELSE next(m, Append(batch, "DeployContract"))
      [] j = 4 -> IF wrong_cast THEN MsFail(m, "abort: invalid downcast")
                  ELSE IF assert_self_request(ctx, receiver_id) # ""
                  THEN MsFail(m, assert_self_request(ctx, receiver_id))
                  ELSE next(m, Append(batch, "AddKey"))
      [] j = 5 -> IF wrong_cast THEN MsFail(m, "abort: invalid downcast")
                  ELSE IF assert_self_request(ctx, receiver_id) # ""
                  THEN MsFail(m, assert_self_request(ctx, receiver_id))
                  ELSE IF m.collections = "null" THEN MsFail(m, NullCollection)
                  ELSE
                    LET pk == IF j = i THEN action.public_key ELSE g.public_key
                        request_ids == { r_id \in DOMAIN m.requests :
                                            m.requests[r_id].signer_pk = pk }
                        m1 == [m EXCEPT
                                 !.confirmations =
                                     [x \in (DOMAIN m.confirmations) \ request_ids |->
                                         m.confirmations[x]],
                                 !.requests =
                                     [x \in (DOMAIN m.requests) \ request_ids |->
                                         m.requests[x]],
                                 !.num_requests_pk = MapDelete(m.num_requests_pk, pk)]
                    IN next(m1, Append(batch, "DeleteKey"))
      [] j = 6 -> IF wrong_cast THEN MsFail(m, "abort: invalid downcast")
                  ELSE next(m, Append(batch, "FunctionCall"))
      [] j = 7 -> IF wrong_cast THEN MsFail(m, "abort: invalid downcast")
                  ELSE IF assert_one_action_only(ctx, receiver_id, num_actions) # ""
                  THEN MsFail(m, assert_one_action_only(ctx, receiver_id, num_actions))
                  ELSE MsOk([m EXCEPT !.num_confirmations =
                                          IF j = i THEN action.n ELSE g.n],
                            batch, 0)
      [] OTHER -> IF assert_one_action_only(ctx, receiver_id, num_actions) # ""
                  THEN MsFail(m, assert_one_action_only(ctx, receiver_id, num_actions))
                  ELSE MsOk([m EXCEPT !.active_requests_limit = action.n], batch, 0)

\* request.actions.forEach(...), from action number k on
RECURSIVE ForEachAction(_, _, _, _, _, _)
ForEachAction(m, batch, ctx, request, k, g) ==
    IF k > Len(request.actions) THEN MsOk(m, batch, 0)
    ELSE
      LET action == request.actions[k]
          r == RunCases(m, batch, ctx, request, action,
                        TypeIndex(action.type), TypeIndex(action.type), g)
      IN IF r.err # "" THEN r
         ELSE ForEachAction(r.m, r.batch, ctx, request, k + 1, g)

execute_request(m, ctx, request, g) ==
    LET r == ForEachAction(m, <<>>, ctx, request, 1, g) IN
    IF r.err # "" THEN r ELSE [r EXCEPT !.executed = TRUE]

confirm(m, ctx, request_id, g) ==
    IF assert_valid_request(m, ctx, request_id) # ""
    THEN MsFail(m, assert_valid_request(m, ctx, request_id))
    ELSE
      LET signer_acount_pk == ctx.senderPublicKey
          confirmations == m.confirmations[request_id]
      IN
      IF ~(signer_acount_pk \notin confirmations)
      THEN MsFail(m, "Already confirmed this request from this key")
      ELSE IF Cardinality(confirmations) + 1 >= m.num_confirmations
      THEN LET rr == remove_request(m, request_id) IN
           IF rr.err # "" THEN MsFail(m, rr.err)
           ELSE LET e == execute_request(rr.m, ctx, rr.ret, g) IN
                IF e.err # "" THEN MsFail(m, e.err) ELSE e
      ELSE MsOk([m EXCEPT !.confirmations =
                              MapSet(m.confirmations, request_id,
                                     confirmations \cup {signer_acount_pk})],
                <<>>, 0)

add_request_and_confirm(m, ctx, request, g) ==
    LET a == add_request(m, ctx, request) IN
    IF a.err # "" THEN a
    ELSE LET c == confirm(a.m, ctx, a.ret, g) IN
         IF c.err # "" THEN MsFail(m, c.err)
         ELSE [c EXCEPT !.ret = a.ret]

delete_request(m, ctx, request_id) ==
    IF assert_valid_request(m, ctx, request_id) # ""
    THEN MsFail(m, assert_valid_request(m, ctx, request_id))
    ELSE
      LET request_with_signer == m.requests[request_id] IN
      IF ~(ctx.blockTimestamp > request_with_signer.added_timestamp + REQUEST_COOLDOWN)
      THEN MsFail(m, "Request cannot be deleted immediately after creation")
      ELSE MsOk(m, <<>>, 0)

-----------------------------------------------------------------------------
(* Multisig: initialisation.  The exported `new` only asserts that nothing *)
(* is stored yet and stores nothing; the constructor then finds no state   *)
(* and leaves every field at its default.                                  *)

MsInit ==
    /\ \E build \in {"empty", "null"} :
       ms = [ collections |-> build,
              num_confirmations |-> 0,
              request_nonce |-> 0,
              requests |-> [x \in {} |-> 0],
              confirmations |-> [x \in {} |-> {}],
              num_requests_pk |-> [x \in {} |-> 0],
              active_requests_limit |-> 0 ]
    /\ ms_call = [ op |-> "new", predecessor |-> MSIG_ACCOUNT, signer_pk |-> "k1",
                   timestamp |-> 0,
                   request_id |-> 0, request |-> [receiver_id |-> "none", actions |-> <<>>],
                   err |-> "", ret |-> 0, batch |-> <<>>, executed |-> FALSE,
                   repeat |-> FALSE ]
    /\ ms_calls = 0

-----------------------------------------------------------------------------
(* Multisig: the exported entry points as actions *)

NoRequest == [receiver_id |-> "none", actions |-> <<>>]

\* new MultiSigContract(), the method (result r), persist(); a failed assertion
\* commits nothing and schedules nothing.  The call log marks a failed call
\* that repeats the call before it, so that the repetition is a step.
MsCall(op, ctx, request_id, request, r) ==
    /\ r.err = "" => ms_calls < MaxMsCalls
    /\ ms_calls' = IF r.err = "" THEN ms_calls + 1 ELSE ms_calls
    /\ LET call == [ op |-> op, predecessor |-> ctx.predecessor,
                     signer_pk |-> ctx.senderPublicKey,
                     timestamp |-> ctx.blockTimestamp,
                     request_id |-> request_id, request |-> request,
                     err |-> r.err, ret |-> r.ret, batch |-> r.batch,
                     executed |-> r.executed, repeat |-> FALSE ]
       IN ms_call' = IF r.err # "" /\ call = [ms_call EXCEPT !.repeat = FALSE]
                     THEN [call EXCEPT !.repeat = TRUE]
                     ELSE call
    /\ ms' = IF r.err = "" THEN r.m ELSE ms
    /\ UNCHANGED <<pool_vars, factory_vars, voting_vars>>

\* Only delete_request reads the block timestamp, and only add_request and
\* confirm read the signer's key: the other actions fix the input they ignore.
\* A call that may execute a request has one outcome per reinterpretation.
AddRequest ==
    \E p \in Predecessors, k \in PublicKeys, request \in ProposedRequests :
        LET ctx == MsContext(p, k, 0) IN
        MsCall("add_request", ctx, 0, request, add_request(ms, ctx, request))

AddRequestAndConfirm ==
    \E p \in Predecessors, k \in PublicKeys, request \in ProposedRequests :
        LET ctx == MsContext(p, k, 0) IN
        \E r \in { add_request_and_confirm(ms, ctx, request, g) : g \in Reinterpretations } :
            MsCall("add_request_and_confirm", ctx, 0, request, r)

DeleteRequest ==
    \E p \in Predecessors, t \in Timestamps, id \in 0 .. MaxRequestId :
        LET ctx == MsContext(p, "k1", t) IN
        MsCall("delete_request", ctx, id, NoRequest, delete_request(ms, ctx, id))

ExecuteRequest ==
    \E p \in Predecessors, request \in Requests :
        LET ctx == MsContext(p, "k1", 0) IN
        \E r \in { execute_request(ms, ctx, request, g) : g \in Reinterpretations } :
            MsCall("execute_request", ctx, 0, request, r)

Confirm ==
    \E p \in Predecessors, k \in PublicKeys, id \in 0 .. MaxRequestId :
        LET ctx == MsContext(p, k, 0) IN
        \E r \in { confirm(ms, ctx, id, g) : g \in Reinterpretations } :
            MsCall("confirm", ctx, id, NoRequest, r)

RemoveRequest ==
    \E p \in Predecessors, id \in 0 .. MaxRequestId :
        LET ctx == MsContext(p, "k1", 0)
            r == remove_request(ms, id)
        IN MsCall("remove_request", ctx, id, NoRequest, [r EXCEPT !.ret = 0])

MultiSigNext ==
    \/ AddRequest
    \/ AddRequestAndConfirm
    \/ DeleteRequest
    \/ ExecuteRequest
    \/ Confirm
    \/ RemoveRequest

-----------------------------------------------------------------------------
(* Staking pool factory (src/unnamed/part_000): constants and types        *)

\* scaled with the other yoctoNEAR amounts
MIN_ATTACHED_BALANCE == 3

FACTORY_ACCOUNT == "factory"

WHITELIST_ACCOUNT == "whitelist"

\* PromiseResult
NotReady == 0

Successful == 1

Failed == 2

\* the staking_pool_id arguments a caller passes: two plain ones, one that
\* holds the subaccount separator and the empty one
StakingPoolIds == {"a", "b", "a.b", ""}

\* staking_pool_id.includes(SUBACCOUNT_SEPARATOR)
includes_separator(staking_pool_id) == staking_pool_id \in {"a.b"}

\* [staking_pool_id, context.contractName].join(SUBACCOUNT_SEPARATOR)
join(staking_pool_id, contract_name) ==
    CASE staking_pool_id = "a" /\ contract_name = FACTORY_ACCOUNT -> "a.factory"
      [] staking_pool_id = "b" /\ contract_name = FACTORY_ACCOUNT -> "b.factory"
      [] staking_pool_id = "a.b" /\ contract_name = FACTORY_ACCOUNT -> "a.b.factory"
      [] OTHER -> ".factory"

\* the factory's own RewardFeeFraction.assert_valid
factory_assert_valid(f) ==
    IF ~(f.denominator # 0) THEN "Denominator must be a positive number"
    ELSE IF ~(f.numerator <= f.denominator)
    THEN "The reward fee must be less than or equal to 1"
    ELSE ""

\* the callback chained on a batch: none, or on_staking_pool_create with its
\* arguments on the factory itself
NoCallback ==
    [receiver |-> "", method |-> "", staking_pool_account_id |-> "",
     attached_deposit |-> 0, predecessor_account_id |-> ""]

\* a promise batch: the receiver, the kinds of its actions in order, the amount
\* its transfer carries, the method and account-id argument of its function
\* call, and the callback chained with `then`
NoBatch ==
    [receiver |-> "", actions |-> <<>>, amount |-> 0, method |-> "", arg |-> "",
     callback |-> NoCallback]

\* results of a factory method: contract object, failed assertion, batch returned
FcOk(f, batch) == [f |-> f, err |-> "", batch |-> batch]

FcFail(f, msg) == [f |-> f, err |-> msg, batch |-> NoBatch]

\* the execution context of one factory call
FactoryContext(predecessor, attached) ==
    [contractName |-> FACTORY_ACCOUNT, predecessor |-> predecessor,
     attachedDeposit |-> attached]

-----------------------------------------------------------------------------
(* Staking pool factory: methods *)

get_number_of_staking_pools_created(f) == Cardinality(f.staking_pool_account_ids)

create_staking_pool(f, ctx, staking_pool_id, owner_id, reward_fee_fraction) ==
    LET staking_pool_account_id == join(staking_pool_id, ctx.contractName) IN
    IF ~(ctx.attachedDeposit >= MIN_ATTACHED_BALANCE)
    THEN FcFail(f, "Not enough attached deposit to complete staking pool creation")
    ELSE IF ~(~includes_separator(staking_pool_id))
    THEN FcFail(f, "The staking pool ID can't contain .")
    ELSE IF ~isValidAccountID(staking_pool_account_id)
    THEN FcFail(f, "The staking pool account ID is invalid")
    ELSE IF ~isValidAccountID(owner_id)
    THEN FcFail(f, "The owner account ID is invalid")
    ELSE IF factory_assert_valid(reward_fee_fraction) # ""
    THEN FcFail(f, factory_assert_valid(reward_fee_fraction))
    ELSE IF ~(staking_pool_account_id \notin f.staking_pool_account_ids)
    THEN FcFail(f, "The staking pool account ID already exists")
    ELSE
      FcOk([f EXCEPT !.staking_pool_account_ids = @ \cup {staking_pool_account_id}],
           [receiver |-> staking_pool_account_id,
            actions |-> <<"create_account", "transfer", "deploy_contract", "function_call">>,
            amount |-> ctx.attachedDeposit,
            method |-> "new",
            arg |-> owner_id,
            callback |-> [receiver |-> ctx.contractName,
                          method |-> "on_staking_pool_create",
                          staking_pool_account_id |-> staking_pool_account_id,
                          attached_deposit |-> ctx.attachedDeposit,
                          predecessor_account_id |-> ctx.predecessor]])

\* ContractBase.assert_self
assert_self(ctx) ==
    IF ~(ctx.predecessor = ctx.contractName)
    THEN "This method can only be invoked by self"
    ELSE ""

\* ContractBase.is_promise_success: the failed assertion and the outcome read
is_promise_success(results_count, result) ==
    IF ~(results_count = 1)
    THEN [err |-> "Contract expected a result on the callback", val |-> FALSE]
    ELSE [err |-> "", val |-> (result = Successful)]

\* on_staking_pool_create that keeps the id of a pool that was not created
on_staking_pool_create_kept(f, ctx, staking_pool_account_id, attached_deposit, predecessor_account_id, results_count, result) ==
    IF assert_self(ctx) # "" THEN FcFail(f, assert_self(ctx))
    ELSE
      LET staking_pool_created == is_promise_success(results_count, result) IN
      IF staking_pool_created.err # "" THEN FcFail(f, staking_pool_created.err)
      ELSE IF staking_pool_created.val
      THEN FcOk(f, [NoBatch EXCEPT !.receiver = f.staking_pool_whitelist_account_id,
                                   !.actions = <<"function_call">>,
                                   !.method = "add_staking_pool",
                                   !.arg = staking_pool_account_id])
      ELSE FcOk(f, [NoBatch EXCEPT !.receiver = predecessor_account_id,
                                   !.actions = <<"transfer">>,
                                   !.amount = attached_deposit])

on_staking_pool_create(f, ctx, staking_pool_account_id, attached_deposit, predecessor_account_id, results_count, result) ==
    IF assert_self(ctx) # "" THEN FcFail(f, assert_self(ctx))
    ELSE
      LET staking_pool_created == is_promise_success(results_count, result) IN
      IF staking_pool_created.err # "" THEN FcFail(f, staking_pool_created.err)
      ELSE IF staking_pool_created.val
      THEN FcOk(f, [NoBatch EXCEPT !.receiver = f.staking_pool_whitelist_account_id,
                                   !.actions = <<"function_call">>,
                                   !.method = "add_staking_pool",
                                   !.arg = staking_pool_account_id])
      ELSE FcOk([f EXCEPT !.staking_pool_account_ids = @ \ {staking_pool_account_id}],
                [NoBatch EXCEPT !.receiver = predecessor_account_id,
                                !.actions = <<"transfer">>,
                                !.amount = attached_deposit])

-----------------------------------------------------------------------------
(* Staking pool factory: the calls as actions.  A call is atomic; the       *)
(* callback chained by create_staking_pool runs later, as a call of its    *)
(* own, once the host knows whether the batch on the new account succeeded. *)

\* the constructor, with the whitelist account it is given
FactoryInit ==
    /\ factory = [staking_pool_whitelist_account_id |-> WHITELIST_ACCOUNT,
                  staking_pool_account_ids |-> {}]
    /\ factory_call = [op |-> "new", predecessor |-> FACTORY_ACCOUNT, deposit |-> 0,
                       id |-> "", refund_to |-> "", results_count |-> 0,
                       result |-> NotReady, err |-> "", batch |-> NoBatch]
    /\ factory_pending = {}
    /\ factory_created = {}

FactoryCallers == {"alice", "bob"}

FactoryDeposits == (MIN_ATTACHED_BALANCE - 1) .. (MIN_ATTACHED_BALANCE + 1)

FactoryOwnerIds == {OWNER, "V"}

FactoryFractions == { [numerator |-> 1, denominator |-> 2],
                      [numerator |-> 2, denominator |-> 1] }

\* the record of a call and what it persists
FactoryCall(op, predecessor, attached, id, refund_to, results_count, result, r) ==
    /\ factory_call' = [op |-> op, predecessor |-> predecessor, deposit |-> attached,
                        id |-> id, refund_to |-> refund_to,
                        results_count |-> results_count, result |-> result,
                        err |-> r.err, batch |-> r.batch]
    /\ factory' = IF r.err = "" THEN r.f ELSE factory
    /\ UNCHANGED <<pool_vars, ms_vars, voting_vars>>

CreateStakingPool ==
    \E p \in FactoryCallers, d \in FactoryDeposits, id \in StakingPoolIds,
       owner_id \in FactoryOwnerIds, fraction \in FactoryFractions :
        LET r == create_staking_pool(factory, FactoryContext(p, d), id, owner_id, fraction)
        IN /\ FactoryCall("create_staking_pool", p, d, id, "", 0, NotReady, r)
           /\ factory_pending' = IF r.err = ""
                                 THEN factory_pending \cup {r.batch.callback}
                                 ELSE factory_pending
           /\ UNCHANGED factory_created

\* the host has run the batch on the new account and delivers its outcome to
\* the callback, called by the factory on itself with one promise result
RunCallback ==
    \E cb \in factory_pending, result \in {Successful, Failed} :
        LET r == on_staking_pool_create(factory, FactoryContext(cb.receiver, 0),
                                        cb.staking_pool_account_id, cb.attached_deposit,
                                        cb.predecessor_account_id, 1, result)
        IN /\ FactoryCall("on_staking_pool_create", cb.receiver, cb.attached_deposit,
                          cb.staking_pool_account_id, cb.predecessor_account_id,
                          1, result, r)
           /\ factory_pending' = factory_pending \ {cb}
           /\ factory_created' = IF result = Successful
                                 THEN factory_created \cup {cb.staking_pool_account_id}
                                 ELSE factory_created

\* on_staking_pool_create called as a transaction, by anyone (the factory
\* account included), with no promise result to read
CallCallback ==
    \E p \in FactoryCallers \cup {FACTORY_ACCOUNT},
       id \in {"a.factory", "b.factory"}, d \in FactoryDeposits :
        LET r == on_staking_pool_create(factory, FactoryContext(p, 0), id, d, p, 0, NotReady)
        IN /\ FactoryCall("on_staking_pool_create", p, d, id, p, 0, NotReady, r)
           /\ UNCHANGED <<factory_pending, factory_created>>

FactoryNext ==
    \/ CreateStakingPool
    \/ RunCallback
    \/ CallCallback

-----------------------------------------------------------------------------
(* Voting contract (src/contracts/voting/main.ts)                          *)

VOTING_ACCOUNT == "voting"

\* the accounts that call the voting contract: two validators and an account
\* that never has stake
Validators == {"v1", "v2"}

Voters == Validators \cup {"alice"}

\* Option<WrappedTimestamp>
Option(value) == [value |-> value]

\* Option.is_none of an option whose value reads as null
is_none_of_null(option) == TRUE

\* Option.is_none: WrappedTimestamp is u64, neither nullable nor a reference,
\* so the method takes its else branch whatever the value
is_none(option) == FALSE

is_some(option) == ~is_none(option)

\* results of a voting method: contract object and failed assertion
VtOk(v) == [v |-> v, err |-> ""]

VtFail(v, msg) == [v |-> v, err |-> msg]

\* the execution context of one voting call, with the host's validator stakes
VotingContext(predecessor, timestamp) ==
    [predecessor |-> predecessor, epochHeight |-> voting_epoch,
     blockTimestamp |-> timestamp, validator_stake |-> validator_stake]

RECURSIVE TotalStake(_, _)
\* env.validator_total_stake
TotalStake(stakes, ids) ==
    IF ids = {} THEN 0
    ELSE LET a == CHOOSE x \in ids : TRUE
         IN stakes[a] + TotalStake(stakes, ids \ {a})

validator_total_stake(ctx) == TotalStake(ctx.validator_stake, DOMAIN ctx.validator_stake)

\* env.validator_stake
validator_stake_of(ctx, account_id) == MapGet(ctx.validator_stake, account_id, 0)

\* VotingContract.init
voting_init ==
    [votes |-> [a \in {} |-> 0],
     total_voted_stake |-> 0,
     result |-> Option(0),
     last_epoch_height |-> 0]

check_result(v, ctx) ==
    IF ~is_none(v.result)
    THEN VtFail(v, "check result is called after result is already set")
    ELSE
      LET total_stake == validator_total_stake(ctx) IN
      IF v.total_voted_stake > u128_mul(total_stake, u128_div(2, 3))
      THEN VtOk([v EXCEPT !.result = Option(ctx.blockTimestamp)])
      ELSE VtOk(v)

RECURSIVE PingLoop(_, _, _)
\* the loop of ping over the keys still to visit
PingLoop(v, ctx, account_ids) ==
    IF account_ids = {} THEN VtOk(v)
    ELSE
      LET account_id == CHOOSE x \in account_ids : TRUE
          account_current_stake == validator_stake_of(ctx, account_id)
          v1 == IF account_current_stake > 0
                THEN [v EXCEPT !.votes = MapSet(v.votes, account_id, account_current_stake)]
                ELSE v
          r == check_result(v1, ctx)
      IN IF r.err # "" THEN r
         ELSE PingLoop([r.v EXCEPT !.last_epoch_height = ctx.epochHeight], ctx,
                       account_ids \ {account_id})

voting_ping(v, ctx) ==
    IF ~is_none(v.result) THEN VtFail(v, "Voting has already ended")
    ELSE IF ctx.epochHeight # v.last_epoch_height
    THEN PingLoop([v EXCEPT !.total_voted_stake = 0], ctx, DOMAIN v.votes)
    ELSE VtOk(v)

voting_vote(v, ctx, is_vote) ==
    LET p == voting_ping(v, ctx) IN
    IF p.err # "" THEN VtFail(v, p.err)
    ELSE IF is_some(p.v.result) THEN VtOk(p.v)
    ELSE
      LET account_id == ctx.predecessor
          current_stake == validator_stake_of(ctx, account_id)
      IN
      IF is_vote /\ ~(current_stake > 0) THEN VtFail(v, "is not a validator")
      ELSE
        LET account_stake == IF is_vote THEN current_stake ELSE 0
            voted_stake == MapGet(p.v.votes, account_id, 0)
            v1 == [p.v EXCEPT !.votes = MapDelete(p.v.votes, account_id)]
        IN
        IF ~(voted_stake <= v1.total_voted_stake)
        THEN VtFail(v, "invariant: voted stake is more than total voted stake")
        ELSE
          LET v2 == [v1 EXCEPT !.total_voted_stake =
                                   u128_add(v1.total_voted_stake,
                                            u128_sub(account_stake, voted_stake))]
          IN IF account_stake > 0
             THEN LET r == check_result([v2 EXCEPT !.votes =
                                             MapSet(v2.votes, account_id, account_stake)],
                                        ctx)
                  IN IF r.err # "" THEN VtFail(v, r.err) ELSE r
             ELSE VtOk(v2)

-----------------------------------------------------------------------------
(* Voting contract: the exported entry points as actions.  The exported    *)
(* `new` loads the contract instead of calling VotingContract.init; the    *)
(* model starts from the object init persists.                             *)

VotingInit ==
    /\ voting = voting_init
    /\ voting_call = [op |-> "new", predecessor |-> VOTING_ACCOUNT, is_vote |-> FALSE,
                      err |-> ""]
    /\ voting_epoch = 0
    /\ validator_stake \in [Validators -> 0 .. MaxAmount]

VotingCall(op, predecessor, is_vote, r) ==
    /\ voting_call' = [op |-> op, predecessor |-> predecessor, is_vote |-> is_vote,
                       err |-> r.err]
    /\ voting' = IF r.err = "" THEN r.v ELSE voting
    /\ UNCHANGED <<voting_epoch, validator_stake>>
    /\ UNCHANGED <<pool_vars, ms_vars, factory_vars>>

VotingPing ==
    \E p \in Voters :
        VotingCall("ping", p, FALSE, voting_ping(voting, VotingContext(p, 1)))

VotingCheckResult ==
    \E p \in Voters :
        VotingCall("check_result", p, FALSE, check_result(voting, VotingContext(p, 1)))

VotingVote ==
    \E p \in Voters, is_vote \in BOOLEAN :
        VotingCall("vote", p, is_vote, voting_vote(voting, VotingContext(p, 1), is_vote))

\* the host moves to the next epoch, with any stakes for the validators
VotingNewEpoch ==
    /\ voting_epoch < MaxEpoch
    /\ voting_epoch' = voting_epoch + 1
    /\ validator_stake' \in [Validators -> 0 .. MaxAmount]
    /\ UNCHANGED <<voting, voting_call>>
    /\ UNCHANGED <<pool_vars, ms_vars, factory_vars>>

VotingNext ==
    \/ VotingPing
    \/ VotingCheckResult
    \/ VotingVote
    \/ VotingNewEpoch

\* the contracts a specification does not call stay as constructed
Uncalled ==
    /\ FactoryInit
    /\ VotingInit
    /\ \A a \in Validators : validator_stake[a] = 0

-----------------------------------------------------------------------------
(* Specifications: one per contract; the other contract is not called *)

StakingInit ==
    /\ PoolInit
    /\ MsInit
    /\ Uncalled
    /\ ms.collections = "empty"

StakingSpec == StakingInit /\ [][StakingNext]_vars

\* One delegator and a longer run: the calls that matter to the withdrawal
\* delay, with epochs that pass one at a time or NUM_EPOCHS_TO_UNLOCK at once.
MaxDelayCalls == 5

MaxDelayEpoch == 5

DELEGATOR == "alice"

DelayDeposit ==
    \E d \in 0 .. MaxAmount :
        PoolCallWithin(MaxDelayCalls, "deposit", DELEGATOR, d, d,
                       deposit(pool, Context(DELEGATOR, d)))

DelayDepositAndStake ==
    \E d \in 0 .. MaxAmount :
        PoolCallWithin(MaxDelayCalls, "deposit_and_stake", DELEGATOR, d, d,
                       deposit_and_stake(pool, Context(DELEGATOR, d)))

DelayUnstake ==
    \E n \in UnstakeAmounts :
        PoolCallWithin(MaxDelayCalls, "unstake", DELEGATOR, 0, n,
                       unstake(pool, Context(DELEGATOR, 0), n))

DelayUnstakeAll ==
    PoolCallWithin(MaxDelayCalls, "unstake_all", DELEGATOR, 0, 0,
                   unstake_all(pool, Context(DELEGATOR, 0)))

DelayWithdraw ==
    \E n \in 0 .. MaxAmount :
        PoolCallWithin(MaxDelayCalls, "withdraw", DELEGATOR, 0, n,
                       withdraw(pool, Context(DELEGATOR, 0), n))

DelayWithdrawAll ==
    PoolCallWithin(MaxDelayCalls, "withdraw_all", DELEGATOR, 0, 0,
                   withdraw_all(pool, Context(DELEGATOR, 0)))

DelayNewEpoch ==
    NewEpochWithin(MaxDelayCalls, MaxDelayEpoch, {1, NUM_EPOCHS_TO_UNLOCK}, {0})

DelayNext ==
    \/ DelayDeposit
    \/ DelayDepositAndStake
    \/ DelayUnstake
    \/ DelayUnstakeAll
    \/ DelayWithdraw
    \/ DelayWithdrawAll
    \/ DelayNewEpoch

DelayInit ==
    /\ PoolInitWith({STAKE_SHARE_PRICE_GUARANTEE_FUND + 3})
    /\ pool.reward_fee_fraction = [numerator |-> 0, denominator |-> 1]
    /\ MsInit
    /\ Uncalled
    /\ ms.collections = "empty"

DelaySpec == DelayInit /\ [][DelayNext]_vars

\* The staking pool with its callback and the owner's methods
StakeKeys == {"ed25519:B"}

NewFractions == { [numerator |-> 1, denominator |-> 1],
                  [numerator |-> 2, denominator |-> 1] }

VotingAccountIds == {"voting", "V"}

MaxResults == 2

Callers == {OWNER, "alice", POOL_ACCOUNT}

OnStakeAction ==
    \E a \in Callers, results_count \in 0 .. MaxResults, succeeded \in BOOLEAN :
        PoolCallArgs(MaxPoolCalls, "on_stake_action", a, 0, 0, Args(results_count, succeeded, "", NoArgs.fraction),
                     on_stake_action(pool, Context(a, 0), results_count, succeeded))

UpdateStakingKey ==
    \E a \in AccountIds, k \in StakeKeys :
        PoolCallArgs(MaxPoolCalls, "update_staking_key", a, 0, 0,
                     Args(0, FALSE, k, NoArgs.fraction),
                     update_staking_key(pool, Context(a, 0), k))

UpdateRewardFeeFraction ==
    \E a \in AccountIds, f \in NewFractions :
        PoolCallArgs(MaxPoolCalls, "update_reward_fee_fraction", a, 0, 0,
                     Args(0, FALSE, "", f),
                     update_reward_fee_fraction(pool, Context(a, 0), f))

Vote ==
    \E a \in AccountIds, v \in VotingAccountIds, is_vote \in BOOLEAN :
        PoolCallArgs(MaxPoolCalls, "vote", a, 0, 0, Args(0, is_vote, v, NoArgs.fraction),
                     vote(pool, Context(a, 0), v, is_vote))

PauseStaking ==
    \E a \in AccountIds :
        PoolCall("pause_staking", a, 0, 0, pause_staking(pool, Context(a, 0)))

ResumeStaking ==
    \E a \in AccountIds :
        PoolCall("resume_staking", a, 0, 0, resume_staking(pool, Context(a, 0)))

\* an epoch ends with the validator slashed
Slash == NewEpochWithin(MaxPoolCalls, MaxEpoch, {1}, {-1})

OwnerNext ==
    \/ StakingNext
    \/ Slash
    \/ OnStakeAction
    \/ UpdateStakingKey
    \/ UpdateRewardFeeFraction
    \/ Vote
    \/ PauseStaking
    \/ ResumeStaking

OwnerInit ==
    /\ PoolInitOf({STAKE_SHARE_PRICE_GUARANTEE_FUND + 4}, {0, 1},
                  {[numerator |-> 0, denominator |-> 1]})
    /\ MsInit
    /\ Uncalled
    /\ ms.collections = "empty"

OwnerSpec == OwnerInit /\ [][OwnerNext]_vars

MultiSigInit ==
    /\ MsInit
    /\ Uncalled
    /\ PoolInit
    /\ account_balance = STAKE_SHARE_PRICE_GUARANTEE_FUND + 4
    /\ pool.reward_fee_fraction = [numerator |-> 0, denominator |-> 1]

MultiSigSpec == MultiSigInit /\ [][MultiSigNext]_vars

FactoryInitial ==
    /\ FactoryInit
    /\ VotingInit
    /\ \A a \in Validators : validator_stake[a] = 0
    /\ PoolInitOf({STAKE_SHARE_PRICE_GUARANTEE_FUND + 4}, {1},
                  {[numerator |-> 0, denominator |-> 1]})
    /\ MsInit
    /\ ms.collections = "empty"

FactorySpec == FactoryInitial /\ [][FactoryNext]_vars

VotingInitial ==
    /\ VotingInit
    /\ FactoryInit
    /\ PoolInitOf({STAKE_SHARE_PRICE_GUARANTEE_FUND + 4}, {1},
                  {[numerator |-> 0, denominator |-> 1]})
    /\ MsInit
    /\ ms.collections = "empty"

VotingSpec == VotingInitial /\ [][VotingNext]_vars

\* Both contracts, one per behaviour: the contracts do not call each other,
\* so a behaviour calls the staking pool's entry points or the multisig's.
PoolUntouched ==
    /\ pool_call.op = "new"
    /\ pool_calls = 0
    /\ epoch_height = 0

MsUntouched ==
    /\ ms_call.op = "new"
    /\ ms_calls = 0

EntryPointsNext ==
    \/ MsUntouched /\ ms.collections = "empty" /\ OwnerNext
    \/ PoolUntouched /\ account_locked_balance = 1 /\ MultiSigNext

EntryPointsInit ==
    /\ PoolInitOf({STAKE_SHARE_PRICE_GUARANTEE_FUND + 4}, {0, 1},
                  {[numerator |-> 0, denominator |-> 1]})
    /\ MsInit
    /\ Uncalled

EntryPointsSpec == EntryPointsInit /\ [][EntryPointsNext]_vars

-----------------------------------------------------------------------------
(* The conversions as the specification defines them (section 4.1): exact  *)
(* integers, the multiplication done before the division.                  *)

shares_for_amount_floor(c, amount) ==
    (amount * c.total_stake_shares) \div c.total_staked_balance

shares_for_amount_ceil(c, amount) ==
    (amount * c.total_stake_shares + c.total_staked_balance - 1) \div c.total_staked_balance

amount_for_shares_floor(c, shares) ==
    (shares * c.total_staked_balance) \div c.total_stake_shares

amount_for_shares_ceil(c, shares) ==
    (shares * c.total_staked_balance + c.total_stake_shares - 1) \div c.total_stake_shares

\* the contract object a call works on once its internal ping has run
AfterPing(predecessor) == internal_ping(pool, Context(predecessor, 0)).c

\* the step is a successful call of entry point op
Succeeds(op) ==
    /\ pool_call'.op = op
    /\ pool_call'.err = ""
    /\ pool_calls' = pool_calls + 1
    /\ epoch_height' = epoch_height

\* the step is a call of entry point op, successful or failed
Calls(op) ==
    /\ pool_call'.op = op
    /\ \/ Succeeds(op)
       \/ pool_call'.err # "" /\ pool_call' # pool_call

-----------------------------------------------------------------------------
(* Claims about the staking pool *)

\* C1: the share price total_staked_balance / total_stake_shares never decreases
\* over any step (compared by cross-multiplication).
C1_PriceNeverDecreases ==
    [][ pool'.total_staked_balance * pool.total_stake_shares
          >= pool.total_staked_balance * pool'.total_stake_shares ]_vars

\* C7: a successful stake(amount) debits the caller's unstaked balance by
\* charge = amount_for_shares_floor(shares) and credits its stake_shares by
\* shares = shares_for_amount_floor(amount); stake fails, changing nothing, when
\* amount = 0, shares = 0, charge = 0 or unstaked < charge.
C7_StakeAccountSide ==
    [][ Calls("stake") =>
          LET c == AfterPing(pool_call'.predecessor)
              amount == pool_call'.amount
              old == internal_get_account(c, pool_call'.predecessor)
              new == internal_get_account(pool', pool_call'.predecessor)
              shares == IF c.total_staked_balance > 0
                        THEN shares_for_amount_floor(c, amount) ELSE 0
              charge == IF c.total_stake_shares > 0
                        THEN amount_for_shares_floor(c, shares) ELSE 0
          IN /\ pool_call'.err = "" =>
                  /\ new.unstaked = old.unstaked - charge
                  /\ new.stake_shares = old.stake_shares + shares
             /\ (amount = 0 \/ shares = 0 \/ charge = 0 \/ old.unstaked < charge) =>
                  /\ pool_call'.err # ""
                  /\ pool' = pool ]_vars

\* C8: a successful unstake(amount) that burns shares = shares_for_amount_ceil(amount)
\* decreases total_stake_shares by shares and total_staked_balance by
\* amount_for_shares_floor(shares), both at the price before the unstake.
C8_UnstakePoolSide ==
    [][ Succeeds("unstake") =>
          LET c == AfterPing(pool_call'.predecessor)
              shares == shares_for_amount_ceil(c, pool_call'.amount)
          IN /\ pool'.total_stake_shares = c.total_stake_shares - shares
             /\ pool'.total_staked_balance =
                    c.total_staked_balance - amount_for_shares_floor(c, shares) ]_vars

\* C9: a successful unstake(amount) debits the caller's stake_shares by
\* shares = shares_for_amount_ceil(amount), credits its unstaked by
\* amount_for_shares_ceil(shares) and sets unstaked_available_epoch_height to the
\* current epoch + 4; unstake fails, changing nothing, when amount = 0, the pool
\* has no staked balance, or the caller holds fewer than shares.
C9_UnstakeAccountSide ==
    [][ Calls("unstake") =>
          LET c == AfterPing(pool_call'.predecessor)
              amount == pool_call'.amount
              old == internal_get_account(c, pool_call'.predecessor)
              new == internal_get_account(pool', pool_call'.predecessor)
              shares == IF c.total_staked_balance > 0
                        THEN shares_for_amount_ceil(c, amount) ELSE 0
              payout == IF c.total_stake_shares > 0
                        THEN amount_for_shares_ceil(c, shares) ELSE 0
          IN /\ pool_call'.err = "" =>
                  /\ new.stake_shares = old.stake_shares - shares
                  /\ new.unstaked = old.unstaked + payout
                  /\ new.unstaked_available_epoch_height =
                         epoch_height + NUM_EPOCHS_TO_UNLOCK
             /\ (amount = 0 \/ c.total_staked_balance = 0 \/ old.stake_shares < shares) =>
                  /\ pool_call'.err # ""
                  /\ pool' = pool ]_vars

\* C10: a successful stake(amount) that grants shares increases total_stake_shares
\* by shares and total_staked_balance by amount_for_shares_ceil(shares), at the
\* price before the stake.
C10_StakePoolSide ==
    [][ Succeeds("stake") =>
          LET c == AfterPing(pool_call'.predecessor)
              shares == shares_for_amount_floor(c, pool_call'.amount)
          IN /\ pool'.total_stake_shares = c.total_stake_shares + shares
             /\ pool'.total_staked_balance =
                    c.total_staked_balance + amount_for_shares_ceil(c, shares) ]_vars

-----------------------------------------------------------------------------
(* Multisig: properties.  A request is pending from the add_request call   *)
(* that issued its id until it is executed or deleted; the confirmation    *)
(* sets, which exist exactly for the pending requests, identify them.      *)

Pending(m, request_id) == request_id \in DOMAIN m.confirmations

\* the step is a call of entry point op by the contract account itself
SelfCalls(op) ==
    /\ ms_call'.op = op
    /\ ms_call'.predecessor = MSIG_ACCOUNT
    /\ \/ ms_calls' = ms_calls + 1
       \/ ms_call'.err # "" /\ ms_call' # ms_call

\* the kinds of outbound promise actions a request asks for, in order
RECURSIVE OutboundKinds(_)
OutboundKinds(actions) ==
    IF actions = <<>> THEN <<>>
    ELSE LET rest == OutboundKinds(Tail(actions)) IN
         IF TypeIndex(Head(actions).type) <= 6
         THEN <<Head(actions).type>> \o rest
         ELSE rest

NotFound == "No such request: either wrong number or already confirmed"

AlreadyConfirmed == "Already confirmed this request from this key"

\* C2: a request is executed only by the contract account's own confirm (or
\* add_request_and_confirm) call with which the number of distinct confirming
\* keys reaches num_confirmations; no exported entry point executes a request
\* that has fewer confirmations.
C2_ExecutesOnlyAtThreshold ==
    [][ (ms_call'.executed /\ ms_calls' = ms_calls + 1) =>
          \/ /\ ms_call'.op = "confirm"
             /\ ms_call'.predecessor = MSIG_ACCOUNT
             /\ Pending(ms, ms_call'.request_id)
             /\ Cardinality(ms.confirmations[ms_call'.request_id]
                              \cup {ms_call'.signer_pk}) >= ms.num_confirmations
          \/ /\ ms_call'.op = "add_request_and_confirm"
             /\ ms_call'.predecessor = MSIG_ACCOUNT
             /\ 1 >= ms.num_confirmations ]_vars

\* C3: after a successful add_request the returned id names a recorded pending
\* request -- the request passed in, with the signer's key and the block
\* timestamp -- and an empty confirmation set.
C3_AddRequestRecords ==
    (ms_call.op = "add_request" /\ ms_call.err = "") =>
        /\ ms_call.ret \in DOMAIN ms.requests
        /\ ms.requests[ms_call.ret].request = ms_call.request
        /\ ms.requests[ms_call.ret].signer_pk = ms_call.signer_pk
        /\ ms.requests[ms_call.ret].added_timestamp = ms_call.timestamp
        /\ ms_call.ret \in DOMAIN ms.confirmations
        /\ ms.confirmations[ms_call.ret] = {}

\* C4: a confirm by a new key that brings a pending request to num_confirmations
\* finds the request, and when the call succeeds the request was executed and
\* it and its confirmation set are removed in that call; a confirm on an id
\* that is not pending fails with the request-not-found error.
C4_ConfirmAtThresholdExecutes ==
    [][ SelfCalls("confirm") =>
          LET id == ms_call'.request_id
              key == ms_call'.signer_pk
          IN /\ ( /\ Pending(ms, id)
                  /\ key \notin ms.confirmations[id]
                  /\ Cardinality(ms.confirmations[id]) + 1 >= ms.num_confirmations )
                => /\ ms_call'.err # NotFound
                   /\ ms_call'.err = "" =>
                        /\ ms_call'.executed
                        /\ ~Pending(ms', id)
                        /\ id \notin DOMAIN ms'.requests
             /\ ~Pending(ms, id) => ms_call'.err = NotFound ]_vars

\* C5: when a key confirms a pending request without reaching the threshold and
\* then confirms the same request again, the second call fails with the
\* already-confirmed error and changes nothing.
C5_ConfirmTwiceFails ==
    [][ ( /\ ms_call.op = "confirm"
          /\ ms_call.predecessor = MSIG_ACCOUNT
          /\ SelfCalls("confirm")
          /\ ms_call'.request_id = ms_call.request_id
          /\ ms_call'.signer_pk = ms_call.signer_pk
          /\ Pending(ms, ms_call.request_id)
          /\ Cardinality(ms.confirmations[ms_call.request_id]
                           \cup {ms_call.signer_pk}) < ms.num_confirmations )
        => /\ ms_call'.err = AlreadyConfirmed
           /\ ms' = ms ]_vars

\* C6: executing a request made of outbound actions only (here a request the
\* contract account passes to execute_request) succeeds and yields exactly one
\* promise action per request action, of that action's kind, in the request's
\* order, and leaves the contract's configuration alone.
C6_OneActionPerRequestAction ==
    [][ ( /\ SelfCalls("execute_request")
          /\ ms_call'.request.actions # <<>>
          /\ \A k \in 1 .. Len(ms_call'.request.actions) :
                ms_call'.request.actions[k].type \in {"Transfer", "CreateAccount"} )
        => /\ ms_call'.err = ""
           /\ ms_call'.batch = OutboundKinds(ms_call'.request.actions)
           /\ ms' = ms ]_vars

-----------------------------------------------------------------------------
(* Staking pool: rewards, conservation, withdrawal *)

\* C11: a ping in a new epoch with total_reward = locked + unlocked balance -
\* last_total_balance > 0 and fee fraction n/d takes the owner fee
\* floor(total_reward * n / d), adds total_reward - fee to total_staked_balance,
\* credits the owner floor(fee * total_stake_shares / total_staked_balance) shares
\* at that price (total_stake_shares grows by the same count), and then adds the
\* fee to total_staked_balance.
C11_RewardDistribution ==
    [][ (Succeeds("ping") /\ pool.last_epoch_height # epoch_height) =>
          LET total_reward == account_locked_balance + account_balance
                                - pool.last_total_balance
              f == pool.reward_fee_fraction
              fee == (total_reward * f.numerator) \div f.denominator
              after_remainder == pool.total_staked_balance + total_reward - fee
              shares == IF after_remainder > 0
                        THEN (fee * pool.total_stake_shares) \div after_remainder
                        ELSE 0
              old == internal_get_account(pool, pool.owner_id)
              new == internal_get_account(pool', pool.owner_id)
          IN total_reward > 0 =>
                /\ pool'.total_staked_balance = after_remainder + fee
                /\ pool'.total_stake_shares = pool.total_stake_shares + shares
                /\ new.stake_shares = old.stake_shares + shares ]_vars

\* the unstaked balances of the accounts ids
RECURSIVE UnstakedSum(_, _)
UnstakedSum(c, ids) ==
    IF ids = {} THEN 0
    ELSE LET a == CHOOSE x \in ids : TRUE
         IN c.accounts[a].unstaked + UnstakedSum(c, ids \ {a})

\* the value of the shares of the accounts ids, rounded down per account
RECURSIVE StakedValue(_, _)
StakedValue(c, ids) ==
    IF ids = {} THEN 0
    ELSE LET a == CHOOSE x \in ids : TRUE
             staked == IF c.total_stake_shares > 0
                       THEN amount_for_shares_floor(c, c.accounts[a].stake_shares)
                       ELSE 0
         IN staked + StakedValue(c, ids \ {a})

\* C12: what the accounts can claim (unstaked balances plus the value of their
\* shares) never exceeds last_total_balance, and the slack between the two is
\* at most the guarantee fund plus the part of total_staked_balance that no
\* account's shares claim (the initial, unowned shares).
C12_Conservation ==
    LET ids == DOMAIN pool.accounts
        claimable == UnstakedSum(pool, ids) + StakedValue(pool, ids)
        slack == pool.last_total_balance - claimable
        unowned_value == pool.total_staked_balance - StakedValue(pool, ids)
    IN /\ slack >= 0
       /\ slack <= STAKE_SHARE_PRICE_GUARANTEE_FUND + unowned_value

DelayError == "The unstaked balance is not yet available due to unstaking delay"

\* the step is a withdraw or withdraw_all call by account a
Withdraws(a) ==
    /\ pool_call'.predecessor = a
    /\ Calls("withdraw") \/ Calls("withdraw_all")

\* C13: after an account's unstake succeeded at epoch e, every withdraw or
\* withdraw_all by that account at an epoch < e + 4 fails, changes no state and
\* schedules no transfer; at an epoch >= e + 4 (no later unstake) the delay
\* check does not reject its withdrawals.
C13_UnstakingDelay ==
    [][ \A a \in AccountIds :
          (Withdraws(a) /\ unstaked_at[a] # NoUnstake) =>
              IF epoch_height < unstaked_at[a] + NUM_EPOCHS_TO_UNLOCK
              THEN /\ pool_call'.err # ""
                   /\ pool' = pool
                   /\ pool_promises' = <<>>
              ELSE pool_call'.err # DelayError ]_vars

\* the transfers among the promises a call scheduled
Transfers(out) == SelectSeq(out, LAMBDA p : p.kind = "transfer")

\* C14: withdraw(amount) succeeds only if amount > 0, the caller's unstaked
\* balance is at least amount and the current epoch has reached the caller's
\* unstaked_available_epoch_height; on success the caller's unstaked balance
\* and last_total_balance each decrease by exactly amount, exactly one transfer
\* of amount to the caller is scheduled, and the withdrawal itself leaves
\* total_staked_balance and total_stake_shares as the internal ping left them.
C14_Withdraw ==
    [][ \A a \in AccountIds :
          (Succeeds("withdraw") /\ pool_call'.predecessor = a) =>
              LET c == AfterPing(a)
                  amount == pool_call'.amount
                  old == internal_get_account(c, a)
                  new == internal_get_account(pool', a)
              IN /\ amount > 0
                 /\ old.unstaked >= amount
                 /\ epoch_height >= old.unstaked_available_epoch_height
                 /\ new.unstaked = old.unstaked - amount
                 /\ pool'.last_total_balance = c.last_total_balance - amount
                 /\ Transfers(pool_promises') = << TransferPromise(a, amount) >>
                 /\ pool'.total_staked_balance = c.total_staked_balance
                 /\ pool'.total_stake_shares = c.total_stake_shares ]_vars

\* what account a gets out of staking amount and at once unstaking the value of
\* the shares the stake gave it, starting from contract object c
RoundTrip(c, a, amount) ==
    LET ctx == Context(a, 0)
        before == internal_get_account(internal_ping(c, ctx).c, a)
        s == stake(c, ctx, amount)
        staked == internal_get_account(s.c, a)
        shares == u128_sub(staked.stake_shares, before.stake_shares)
        priced == s.err = "" /\ s.c.total_stake_shares > 0
        value == IF priced THEN amount_for_shares_floor(s.c, shares) ELSE 0
        u == unstake(s.c, ctx, value)
        unstaked == internal_get_account(u.c, a)
    IN [ staked |-> s.err = "",
         shares |-> shares,
         price |-> IF priced THEN amount_for_shares_ceil(s.c, 1) ELSE 0,
         unstaked |-> priced /\ value < U128_MODULUS /\ u.err = "",
         payout |-> u128_sub(unstaked.unstaked, staked.unstaked) ]

\* C15: from any reachable pool state, staking amount and then immediately
\* unstaking the value of exactly the shares received pays out at most amount,
\* and falls short of amount by at most one unit of share price,
\* ceil(total_staked_balance / total_stake_shares).
C15_RoundTrip ==
    \A a \in AccountIds, amount \in 1 .. MaxAmount :
        LET t == RoundTrip(pool, a, amount) IN
        t.staked =>
            /\ t.unstaked
            /\ t.payout <= amount
            /\ amount - t.payout <= t.price

-----------------------------------------------------------------------------
(* Multisig: key revocation, deletion, rate limit, lifecycle, request ids *)

\* the step commits an execution of a self-targeted request that holds a
\* DeleteKey action for key k
ExecutesDeleteKey(k) ==
    /\ ms_call'.executed
    /\ ms_calls' = ms_calls + 1
    /\ ms_call'.request.receiver_id = MSIG_ACCOUNT
    /\ \E i \in DOMAIN ms_call'.request.actions :
          /\ ms_call'.request.actions[i].type = "DeleteKey"
          /\ ms_call'.request.actions[i].public_key = k

\* the call before the step was a successful add_request signed by key k; the
\* request it added has the id ms_call.ret
JustAdded(k) ==
    /\ ms_call.op = "add_request"
    /\ ms_call.err = ""
    /\ ms_call.signer_pk = k

\* C16: executing a self-targeted DeleteKey(k) removes, in the same call, every
\* pending request signed by k together with its confirmation set, removes k's
\* entry of the open-request counter map, and leaves the pending requests
\* signed by other keys, their confirmations and their counters unchanged.
C16_DeleteKeyCascade ==
    [][ \A k \in PublicKeys :
          ExecutesDeleteKey(k) =>
              /\ k \notin DOMAIN ms'.num_requests_pk
              /\ \A s \in PublicKeys :
                    (JustAdded(s) /\ Pending(ms, ms_call.ret)) =>
                        IF s = k
                        THEN ~Pending(ms', ms_call.ret)
                        ELSE /\ Pending(ms', ms_call.ret)
                             /\ ms'.confirmations[ms_call.ret] = ms.confirmations[ms_call.ret]
                             /\ MapGet(ms'.num_requests_pk, s, 0) = MapGet(ms.num_requests_pk, s, 0) ]_vars

\* C17: delete_request(request_id) fails with no state change unless the
\* request is pending and the block timestamp is more than REQUEST_COOLDOWN
\* after the time the request was added; when it succeeds the request and its
\* confirmation set are gone afterwards and no outbound action is produced.
\* (Every request of the model is added at timestamp 0.)
C17_DeleteRequest ==
    [][ SelfCalls("delete_request") =>
          LET request_id == ms_call'.request_id IN
          IF Pending(ms, request_id) /\ ms_call'.timestamp > 0 + REQUEST_COOLDOWN
          THEN /\ ms_call'.err = ""
               /\ ~Pending(ms', request_id)
               /\ request_id \notin DOMAIN ms'.requests
               /\ ms_call'.batch = <<>>
          ELSE /\ ms_call'.err # ""
               /\ ms' = ms ]_vars

TooManyRequests == "Account has too many active requests"

\* the step is a confirm call by the contract account that brings request
\* request_id, pending and not yet confirmed by the calling key, to the threshold
ConfirmsToThreshold(request_id) ==
    /\ SelfCalls("confirm")
    /\ ms_call'.request_id = request_id
    /\ Pending(ms, request_id)
    /\ ms_call'.signer_pk \notin ms.confirmations[request_id]
    /\ Cardinality(ms.confirmations[request_id]) + 1 >= ms.num_confirmations

\* C18: add_request by a key whose open-request counter equals
\* active_requests_limit fails with the too-many-active-requests error and
\* changes no state; once one of the key's requests reaches the threshold in a
\* confirm and is executed, the key's counter is one lower and a further
\* add_request by that key succeeds.
C18_RateLimit ==
    [][ /\ \A k \in PublicKeys :
             ( /\ SelfCalls("add_request")
               /\ ms_call'.signer_pk = k
               /\ MapGet(ms.num_requests_pk, k, 0) = ms.active_requests_limit ) =>
                   /\ ms_call'.err = TooManyRequests
                   /\ ms' = ms
        /\ \A k \in PublicKeys :
             ( /\ JustAdded(k)
               /\ MapGet(ms.num_requests_pk, k, 0) = ms.active_requests_limit
               /\ ConfirmsToThreshold(ms_call.ret) ) =>
                   /\ ms_call'.executed
                   /\ MapGet(ms'.num_requests_pk, k, 0) = MapGet(ms.num_requests_pk, k, 0) - 1
                   /\ add_request(ms', MsContext(MSIG_ACCOUNT, k, 0), ms_call.request).err = "" ]_vars

AddsRequest ==
    /\ ms_call'.op \in {"add_request", "add_request_and_confirm"}
    /\ ms_call'.err = ""
    /\ ms_calls' = ms_calls + 1

\* C20: the ids returned by successive successful add_request calls are
\* strictly increasing: each call returns the current request_nonce, which is
\* above every id handed out before, no call ever lowers request_nonce, and so
\* no id is shared by two requests or handed out again.
C20_RequestIds ==
    [][ /\ ms'.request_nonce >= ms.request_nonce
        /\ AddsRequest =>
              /\ ms_call'.ret = ms.request_nonce
              /\ ms'.request_nonce > ms_call'.ret
              /\ \A request_id \in DOMAIN ms.confirmations : request_id < ms_call'.ret
              /\ (\E k \in PublicKeys : JustAdded(k)) => ms_call'.ret > ms_call.ret ]_vars

\* two requests have been added one after the other; the first is still pending
C20_Witness ==
    /\ ms_call.op = "add_request"
    /\ ms_call.err = ""
    /\ ms_call.ret = 1
    /\ Pending(ms, 0)

-----------------------------------------------------------------------------
(* Multisig: configuration actions and key actions *)

\* the step is a call of the exported execute_request, by any account
Executes ==
    /\ ms_call'.op = "execute_request"
    /\ \/ ms_calls' = ms_calls + 1
       \/ ms_call'.err # "" /\ ms_call' # ms_call

\* the types of the actions of a request
ActionTypesOf(request) ==
    { request.actions[i].type : i \in DOMAIN request.actions }

ConfigActions == {"SetNumConfirmations", "SetActiveRequestsLimit"}

\* C21: executing a request with a SetNumConfirmations(n) or
\* SetActiveRequestsLimit(n) action succeeds only if the request targets the
\* contract's own account and holds exactly that one action; it then sets
\* num_confirmations (resp. active_requests_limit) to n, changes nothing else
\* and appends no outbound action; otherwise the call fails and the contract
\* is unchanged.
C21_ConfigActions ==
    [][ (Executes /\ ActionTypesOf(ms_call'.request) \cap ConfigActions # {}) =>
          LET request == ms_call'.request
              action == request.actions[1]
          IN IF request.receiver_id = MSIG_ACCOUNT /\ Len(request.actions) = 1
             THEN /\ ms_call'.err = ""
                  /\ ms_call'.batch = <<>>
                  /\ ms' = IF action.type = "SetNumConfirmations"
                           THEN [ms EXCEPT !.num_confirmations = action.n]
                           ELSE [ms EXCEPT !.active_requests_limit = action.n]
             ELSE /\ ms_call'.err # ""
                  /\ ms' = ms ]_vars

\* a self-targeted request holding only SetNumConfirmations(MaxConfig) has
\* been executed
C21_Witness ==
    /\ ms_call.op = "execute_request"
    /\ ms_call.err = ""
    /\ ms_call.request = [receiver_id |-> MSIG_ACCOUNT,
                          actions |-> <<Action("SetNumConfirmations", "none", MaxConfig)>>]
    /\ ms.num_confirmations = MaxConfig

KeyActions == {"AddKey", "DeleteKey"}

PlainActions == {"Transfer", "CreateAccount", "DeployContract", "FunctionCall"}

\* C22: executing a request that holds an AddKey or DeleteKey action and whose
\* receiver_id is not the contract's own account fails; a request that holds
\* only Transfer, CreateAccount, DeployContract and FunctionCall actions
\* executes for any receiver_id, without that check.
C22_KeyActionsSelfOnly ==
    [][ Executes =>
          LET request == ms_call'.request
              types == ActionTypesOf(request)
          IN /\ (types \cap KeyActions # {} /\ request.receiver_id # MSIG_ACCOUNT) =>
                    /\ ms_call'.err # ""
                    /\ ms' = ms
             /\ (types # {} /\ types \subseteq PlainActions) =>
                    /\ ms_call'.err = ""
                    /\ ms_call'.executed ]_vars

-----------------------------------------------------------------------------
(* Staking pool: owner's methods, pause, vote, callback, ping *)

OwnerOps == {"update_staking_key", "update_reward_fee_fraction", "pause_staking",
             "resume_staking", "vote"}

\* C23: update_staking_key, update_reward_fee_fraction, pause_staking,
\* resume_staking and vote called by an account other than owner_id fail,
\* change no contract state (last_epoch_height and the reward distribution
\* included) and schedule no outbound action.
C23_OwnerOnly ==
    [][ \A op \in OwnerOps :
          (Calls(op) /\ pool_call'.predecessor # pool.owner_id) =>
              /\ pool_call'.err # ""
              /\ pool' = pool
              /\ pool_promises' = <<>> ]_vars

\* an account other than the owner has called pause_staking in an epoch in
\* which no ping has run yet, and was refused
C23_Witness ==
    /\ pool_call.op = "pause_staking"
    /\ pool_call.predecessor # pool.owner_id
    /\ pool_call.err = "Can only be called by owner"
    /\ pool.last_epoch_height # epoch_height
    /\ ~pool.paused

\* the stake actions among the promises a call scheduled
Stakes(out) == SelectSeq(out, LAMBDA p : p.kind = "stake")

\* C24: pause_staking succeeds only for the owner and when not paused; it then
\* schedules a stake action of amount zero and sets paused; while paused no entry point schedules a
\* stake action with a non-zero amount; resume_staking clears paused and
\* schedules a stake action for the current total_staked_balance.
C24_Pause ==
    [][ /\ Succeeds("pause_staking") =>
              /\ pool_call'.predecessor = pool.owner_id
              /\ ~pool.paused
              /\ pool'.paused
              /\ Len(Stakes(pool_promises')) = 1
              /\ Stakes(pool_promises')[1].amount = 0
        /\ (pool.paused /\ ~Succeeds("resume_staking")) =>
              /\ pool'.paused
              /\ \A i \in DOMAIN pool_promises' :
                    pool_promises'[i].kind = "stake" => pool_promises'[i].amount = 0
        /\ Succeeds("resume_staking") =>
              /\ pool.paused
              /\ ~pool'.paused
              /\ Stakes(pool_promises') = << StakePromise(pool'.total_staked_balance, TRUE) >> ]_vars

\* while the pool is paused a ping has run in a new epoch and scheduled nothing
C24_Witness ==
    /\ pool.paused
    /\ pool_call.op = "ping"
    /\ pool_call.err = ""
    /\ epoch_height > 0
    /\ pool.last_epoch_height = epoch_height
    /\ pool_promises = <<>>

\* C25: vote(voting_account_id, is_vote) called by the owner with a valid
\* voting account id schedules exactly one outbound function call
\* vote(is_vote) addressed to voting_account_id, schedules no call of the
\* pool's own on_stake_action, and leaves the share and balance state unchanged.
C25_Vote ==
    [][ ( /\ Calls("vote")
          /\ pool_call'.predecessor = pool.owner_id
          /\ isValidAccountID(pool_call'.args.id) ) =>
              /\ pool_call'.err = ""
              /\ pool_promises' = << FunctionCallPromise(pool_call'.args.id, "vote",
                                                         << pool_call'.args.flag >>) >>
              /\ \A i \in DOMAIN pool_promises' :
                    ~ ( /\ pool_promises'[i].kind = "function_call"
                        /\ pool_promises'[i].receiver = POOL_ACCOUNT
                        /\ pool_promises'[i].method_name = "on_stake_action" )
              /\ pool' = pool ]_vars

\* C26: on_stake_action fails unless the caller is the contract itself and
\* exactly one promise result is present; when the preceding stake action
\* failed and the locked balance is > 0 it schedules exactly one stake action
\* of amount zero without a callback; when the stake action succeeded or the
\* locked balance is 0 it schedules nothing; contract state is unchanged in
\* every case.
C26_OnStakeAction ==
    [][ Calls("on_stake_action") =>
          LET results_count == pool_call'.args.n
              succeeded == pool_call'.args.flag
          IN /\ pool' = pool
             /\ IF pool_call'.predecessor # POOL_ACCOUNT \/ results_count # 1
                THEN /\ pool_call'.err # ""
                     /\ pool_promises' = <<>>
                ELSE /\ pool_call'.err = ""
                     /\ pool_promises' =
                           IF ~succeeded /\ account_locked_balance > 0
                           THEN << StakePromise(0, FALSE) >>
                           ELSE <<>> ]_vars

\* the callback has reported a failed stake action while balance was locked,
\* and has scheduled the corrective stake action
C26_Witness ==
    /\ pool_call.op = "on_stake_action"
    /\ pool_call.err = ""
    /\ ~pool_call.args.flag
    /\ account_locked_balance > 0
    /\ pool_promises = << StakePromise(0, FALSE) >>

\* C27: while the current epoch height equals last_epoch_height, the internal
\* ping of an entry point changes no state and returns false, and the public
\* ping() changes no state and schedules no stake action, whatever the account
\* balance has become since the last ping.
C27_PingSameEpoch ==
    [][ pool.last_epoch_height = epoch_height =>
          /\ \A a \in AccountIds, attached \in 0 .. MaxAmount :
                internal_ping(pool, Context(a, attached)) = Ok(pool, <<>>, FALSE)
          /\ Calls("ping") =>
                /\ pool_call'.err = ""
                /\ pool' = pool
                /\ pool_promises' = <<>> ]_vars

\* ping has run a second time in one epoch, on a pool that is not paused and
\* whose account holds more than last_total_balance, and has scheduled nothing
C27_Witness ==
    /\ pool_call.op = "ping"
    /\ pool_call.err = ""
    /\ pool.last_epoch_height = epoch_height
    /\ ~pool.paused
    /\ account_balance + account_locked_balance > pool.last_total_balance
    /\ pool_promises = <<>>

\* the entry points that start with the internal ping
PingingOps ==
    {"ping", "deposit", "deposit_and_stake", "withdraw", "withdraw_all", "stake",
     "unstake", "unstake_all", "update_staking_key", "update_reward_fee_fraction",
     "pause_staking", "resume_staking"}

\* the account's total balance without the attached deposit is below the
\* recorded one, in an epoch the contract has not yet seen
BalanceFell ==
    /\ pool.last_epoch_height # epoch_height
    /\ account_locked_balance + account_balance < pool.last_total_balance

\* C28: a ping that runs in a new epoch while the total balance (locked plus
\* unlocked, without the attached deposit) is below last_total_balance aborts:
\* internal_ping fails with the balance assertion for every caller and deposit,
\* and every call of an entry point that pings fails, leaves the persisted
\* state (last_epoch_height included) as it was and schedules nothing.
C28_PingFailsClosed ==
    [][ BalanceFell =>
          /\ \A a \in AccountIds, attached \in 0 .. MaxAmount :
                internal_ping(pool, Context(a, attached)).err # ""
          /\ (\E op \in PingingOps : Calls(op)) =>
                /\ pool_call'.err # ""
                /\ pool' = pool
                /\ pool_promises' = <<>> ]_vars

\* a ping was refused for the fallen balance and the epoch is still unseen
C28_Witness ==
    /\ pool_call.op = "ping"
    /\ pool_call.err = "The new total balance should not be less than the old total balance"
    /\ BalanceFell
    /\ pool_promises = <<>>

\* a call of the staking pool was refused in this step
PoolCallFails ==
    /\ pool_call' # pool_call
    /\ pool_call'.err # ""

\* a call of the multisig was refused in this step
MsCallFails ==
    /\ ms_call' # ms_call
    /\ ms_call'.err # ""

C30_FloorConversions ==
    (pool.total_staked_balance > 0 /\ pool.total_stake_shares > 0) =>
        \A n \in 0 .. MaxAmount :
            /\ num_shares_from_staked_amount_rounded_down(pool, n)
                  = Val(shares_for_amount_floor(pool, n))
            /\ staked_amount_from_num_shares_rounded_down(pool, n)
                  = Val(amount_for_shares_floor(pool, n))

\* C31: in every pool state with both totals above 0, for every amount and
\* every number of shares in range, num_shares_from_staked_amount_rounded_up is
\* floor((amount * total_stake_shares + total_staked_balance - 1) / total_staked_balance)
\* and staked_amount_from_num_shares_rounded_up is
\* floor((shares * total_staked_balance + total_stake_shares - 1) / total_stake_shares),
\* and each is the rounded-down conversion or one more.
C31_CeilConversions ==
    (pool.total_staked_balance > 0 /\ pool.total_stake_shares > 0) =>
        \A n \in 0 .. MaxAmount :
            /\ num_shares_from_staked_amount_rounded_up(pool, n)
                  = Val(shares_for_amount_ceil(pool, n))
            /\ staked_amount_from_num_shares_rounded_up(pool, n)
                  = Val(amount_for_shares_ceil(pool, n))
            /\ num_shares_from_staked_amount_rounded_up(pool, n).val
                  - num_shares_from_staked_amount_rounded_down(pool, n).val \in {0, 1}
            /\ staked_amount_from_num_shares_rounded_up(pool, n).val
                  - staked_amount_from_num_shares_rounded_down(pool, n).val \in {0, 1}

\* C32: after initialization, in every reachable state total_staked_balance and
\* total_stake_shares are above 0 (so no conversion fails on a total of 0), and
\* one of them is 0 only when the other is.
C32_TotalsPositive ==
    /\ pool.total_staked_balance > 0
    /\ pool.total_stake_shares > 0
    /\ (pool.total_staked_balance = 0) = (pool.total_stake_shares = 0)
    /\ \A n \in 0 .. MaxAmount :
          /\ num_shares_from_staked_amount_rounded_down(pool, n).err = ""
          /\ num_shares_from_staked_amount_rounded_up(pool, n).err = ""
          /\ staked_amount_from_num_shares_rounded_down(pool, n).err = ""
          /\ staked_amount_from_num_shares_rounded_up(pool, n).err = ""

RECURSIVE SumOfShares(_, _)
\* the stake shares held by the accounts ids of contract c, added up
SumOfShares(c, ids) ==
    IF ids = {} THEN 0
    ELSE LET a == CHOOSE x \in ids : TRUE
         IN c.accounts[a].stake_shares + SumOfShares(c, ids \ {a})

\* C33: in every reachable state total_stake_shares is the sum of stake_shares
\* over all the accounts of the accounts map.
C33_ShareAccounting ==
    pool.total_stake_shares = SumOfShares(pool, DOMAIN pool.accounts)

\* the requests recorded in contract m that were added with key k
RequestsOf(m, k) == {id \in DOMAIN m.requests : m.requests[id].signer_pk = k}

\* C34: in every reachable state, for every public key k, num_requests_pk[k]
\* (0 when absent) is the number of pending requests whose signer_pk is k.
C34_OpenRequestCounter ==
    \A k \in PublicKeys :
        MapGet(ms.num_requests_pk, k, 0) = Cardinality(RequestsOf(ms, k))

\* C35: in every reachable state the confirmations map and the requests map
\* hold the same set of request ids, so that assert_valid_request never fails
\* with 'Internal error: confirmations mismatch requests'.
C35_ConfirmationsMatchRequests ==
    /\ DOMAIN ms.confirmations = DOMAIN ms.requests
    /\ ms_call.err # "Internal error: confirmations mismatch requests"

\* the account of id a in contract c has a positive balance
HasBalance(c, a) ==
    \/ internal_get_account(c, a).unstaked > 0
    \/ internal_get_account(c, a).stake_shares > 0

\* contract c records exactly the accounts with a positive balance
RecordsPositive(c) ==
    /\ \A a \in AccountIds : (a \in DOMAIN c.accounts) = HasBalance(c, a)
    /\ get_number_of_accounts(c)
          = Cardinality({a \in AccountIds : HasBalance(c, a)})

\* C36: in every reachable state an account id is in the accounts map exactly
\* when its unstaked balance or its stake shares are above 0, and
\* get_number_of_accounts counts exactly those accounts; a withdrawal that
\* brings both balances of the caller to zero deletes the caller's record.
C36_AccountRecords ==
    [][ /\ RecordsPositive(pool)
        /\ RecordsPositive(pool')
        /\ \A a \in AccountIds :
              (Withdraws(a) /\ pool_call'.err = "" /\ ~HasBalance(pool', a))
                  => a \notin DOMAIN pool'.accounts ]_vars

\* a withdraw_all has just emptied and deleted the caller's record while the
\* other account is still recorded
C36_Witness ==
    /\ pool_call.op = "withdraw_all"
    /\ pool_call.err = ""
    /\ Len(Transfers(pool_promises)) = 1
    /\ Transfers(pool_promises)[1].amount > 0
    /\ pool_call.predecessor \notin DOMAIN pool.accounts
    /\ get_number_of_accounts(pool) = 1

\* the entry points that stake or unstake
StakeOps == {"deposit_and_stake", "stake", "stake_all", "unstake", "unstake_all"}

\* the step is a successful call of an entry point
SucceedsAny ==
    /\ pool_call'.err = ""
    /\ pool_calls' = pool_calls + 1
    /\ epoch_height' = epoch_height
    /\ account_locked_balance' = account_locked_balance

\* the last stake action scheduled by the step stakes the total staked balance
\* the step leaves, with the on_stake_action callback chained
RestakesTotal ==
    /\ Stakes(pool_promises') # <<>>
    /\ Stakes(pool_promises')[Len(Stakes(pool_promises'))]
          = StakePromise(pool'.total_staked_balance, TRUE)

DelegatorOps ==
    {"deposit", "deposit_and_stake", "withdraw", "withdraw_all", "stake", "stake_all",
     "unstake", "unstake_all"}

\* C38: a successful deposit, stake, unstake or withdraw (any variant) by an
\* account leaves the record of every other account as it was, except that the
\* owner's stake_shares become what the ping of the call made them (they grow
\* by the fee shares when the ping distributes a reward).
C38_AccountIndependence ==
    [][ \A op \in DelegatorOps :
          Succeeds(op) =>
            \A b \in AccountIds \ {pool_call'.predecessor} :
              LET old == internal_get_account(pool, b)
                  pinged == internal_get_account(AfterPing(pool_call'.predecessor), b)
                  new == internal_get_account(pool', b)
              IN /\ new = pinged
                 /\ pinged = [old EXCEPT !.stake_shares = pinged.stake_shares]
                 /\ pinged.stake_shares >= old.stake_shares
                 /\ b # pool.owner_id => new = old ]_vars

\* a delegator has just deposited while the owner holds a record, and the
\* owner's record holds shares the deposit did not touch
C38_Witness ==
    /\ pool_call.op = "deposit"
    /\ pool_call.err = ""
    /\ pool_call.predecessor = "alice"
    /\ pool_call.amount > 0
    /\ "alice" \in DOMAIN pool.accounts
    /\ OWNER \in DOMAIN pool.accounts
    /\ pool.accounts[OWNER].stake_shares > 0

-----------------------------------------------------------------------------
(* Claims about the staking pool factory and the voting contract *)

\* the step is a call of factory method op
FactoryCalls(op) ==
    /\ factory_call'.op = op
    /\ factory_call' # factory_call

\* C39: a successful create_staking_pool records the new pool account id and
\* returns the creation batch chained with on_staking_pool_create(id, attached
\* deposit, caller) on the factory; a create for an id already recorded fails;
\* on_staking_pool_create fails unless the factory calls it on itself as a
\* callback; on a failed creation it removes the id and returns a transfer of
\* the attached deposit of the create call to its caller, on a successful one it
\* keeps the id and returns add_staking_pool(id) on the whitelist account; once
\* no callback is outstanding, get_number_of_staking_pools_created is the
\* number of pools that were created.
C39_FactoryCallback ==
    [][ /\ FactoryCalls("create_staking_pool") =>
              LET id == join(factory_call'.id, FACTORY_ACCOUNT) IN
              /\ id \in factory.staking_pool_account_ids => factory_call'.err # ""
              /\ factory_call'.err # "" =>
                    /\ factory' = factory
                    /\ factory_call'.batch = NoBatch
                    /\ factory_pending' = factory_pending
              /\ factory_call'.err = "" =>
                    /\ factory'.staking_pool_account_ids
                          = factory.staking_pool_account_ids \cup {id}
                    /\ factory_call'.batch.receiver = id
                    /\ factory_call'.batch.amount = factory_call'.deposit
                    /\ factory_call'.batch.callback
                          = [receiver |-> FACTORY_ACCOUNT,
                             method |-> "on_staking_pool_create",
                             staking_pool_account_id |-> id,
                             attached_deposit |-> factory_call'.deposit,
                             predecessor_account_id |-> factory_call'.predecessor]
        /\ FactoryCalls("on_staking_pool_create") =>
              LET id == factory_call'.id
                  callback == factory_call'.predecessor = FACTORY_ACCOUNT
                              /\ factory_call'.results_count = 1
              IN
              /\ callback = (factory_call'.err = "")
              /\ factory_call'.err # "" =>
                    /\ factory' = factory
                    /\ factory_call'.batch = NoBatch
              /\ callback =>
                    \E cb \in factory_pending :
                       /\ cb.staking_pool_account_id = id
                       /\ IF factory_call'.result = Successful
                          THEN /\ factory' = factory
                               /\ id \in factory'.staking_pool_account_ids
                               /\ factory_call'.batch
                                     = [NoBatch EXCEPT !.receiver = WHITELIST_ACCOUNT,
                                                       !.actions = <<"function_call">>,
                                                       !.method = "add_staking_pool",
                                                       !.arg = id]
                          ELSE /\ factory'.staking_pool_account_ids
                                     = factory.staking_pool_account_ids \ {id}
                               /\ factory_call'.batch
                                     = [NoBatch EXCEPT !.receiver = cb.predecessor_account_id,
                                                       !.actions = <<"transfer">>,
                                                       !.amount = cb.attached_deposit]
        /\ factory_pending' = {} =>
              /\ factory'.staking_pool_account_ids = factory_created'
              /\ get_number_of_staking_pools_created(factory')
                    = Cardinality(factory_created') ]_vars

\* the callback of a failed creation has just refunded the caller, no callback
\* is outstanding and the one pool that was created is the one counted
C39_Witness ==
    /\ factory_call.op = "on_staking_pool_create"
    /\ factory_call.err = ""
    /\ factory_call.result = Failed
    /\ factory_call.batch.actions = <<"transfer">>
    /\ factory_call.batch.amount >= MIN_ATTACHED_BALANCE
    /\ factory_call.batch.receiver \in FactoryCallers
    /\ factory_call.id \notin factory.staking_pool_account_ids
    /\ factory_pending = {}
    /\ Cardinality(factory_created) = 1
    /\ get_number_of_staking_pools_created(factory) = 1

RECURSIVE SumOfVotes(_, _)
\* the stakes recorded in the votes map for the accounts ids, added up
SumOfVotes(votes, ids) ==
    IF ids = {} THEN 0
    ELSE LET a == CHOOSE x \in ids : TRUE
         IN votes[a] + SumOfVotes(votes, ids \ {a})

====
